---------------------------- MODULE Spec2Model ----------------------------
(***************************************************************************)
(* A model of PokerNowLogConverter: the Card class (card.py), the hand     *)
(* evaluator (utils.py), the log parser Game.__init__ (game.py) and the    *)
(* PokerStars formatter (hand.py).                                         *)
(*                                                                         *)
(* Python strings that the code indexes or searches are modelled as        *)
(* sequences: a card token is the sequence of its characters, a            *)
(* description or a summary is the sequence of its words.  The four suit   *)
(* symbols of the decorated notation are written CLUB, DIAMOND, HEART and  *)
(* SPADE.  Python's None and a raised exception are records of their own,  *)
(* so that they differ from every value.                                   *)
(***************************************************************************)
EXTENDS Integers, Sequences, FiniteSets, TLC

None == [none |-> TRUE]

\* ------------------------------------------------------------------------
\* card.py
\* ------------------------------------------------------------------------

ranks_order == <<"2", "3", "4", "5", "6", "7", "8", "9", "T", "J", "Q", "K", "A">>
suits_order == <<"s", "h", "d", "c">>

Ranks == {ranks_order[i] : i \in 1..Len(ranks_order)}
Suits == {suits_order[i] : i \in 1..Len(suits_order)}

\* list.index(x): the position of the first x in seq
RECURSIVE IndexFrom(_, _, _)
IndexFrom(seq, x, i) == IF seq[i] = x THEN i ELSE IndexFrom(seq, x, i + 1)

Index(seq, x) == IndexFrom(seq, x, 1)

\* The suit symbol the two tables pair with a suit letter.
SuitEmoji(s) == CASE s = "c" -> "CLUB" [] s = "d" -> "DIAMOND" [] s = "h" -> "HEART" [] s = "s" -> "SPADE"

\* The characters the decorated notation writes for a rank: the ten is "10".
EmojiRank(r) == IF r = "T" THEN <<"1", "0">> ELSE <<r>>

\* strToEmoji: the 52 entries "c2": "2CLUB" ... "sA": "ASPADE"; the keys are suit first.
strToEmoji == [t \in {<<s, r>> : s \in Suits, r \in Ranks} |-> EmojiRank(t[2]) \o <<SuitEmoji(t[1])>>]

\* emojiToStr: the 52 entries "2CLUB": "2c" ... "ASPADE": "As"; the values are rank first.
emojiToStr == [e \in {EmojiRank(r) \o <<SuitEmoji(s)>> : s \in Suits, r \in Ranks} |->
                 LET r == IF Len(e) = 3 THEN "T" ELSE e[1]
                     s == CHOOSE x \in Suits : SuitEmoji(x) = e[Len(e)]
                 IN <<r, s>>]

InvalidCardException == [exception |-> "InvalidCardException"]

\* Card.__init__(name).  Every value of emojiToStr has two characters, so
\* card_str[0] is its first and card_str[1:] its second.
CardFromEmoji(emoji) ==
    LET str == emojiToStr[emoji]
    IN [card_str |-> str, card_emoji_str |-> emoji, rank |-> str[1], suit |-> str[2]]

Card(name) ==
    IF name \in DOMAIN strToEmoji THEN CardFromEmoji(strToEmoji[name])
    ELSE IF name \in DOMAIN emojiToStr THEN CardFromEmoji(name)
    ELSE InvalidCardException

\* Card.__gt__(self, other)
CardGt(self, other) ==
    IF Index(ranks_order, self.rank) > Index(ranks_order, other.rank) THEN TRUE
    ELSE IF Index(ranks_order, self.rank) = Index(ranks_order, other.rank)
         THEN Index(suits_order, self.suit) > Index(suits_order, other.suit)
         ELSE FALSE

\* ------------------------------------------------------------------------
\* utils.py: the hand evaluator
\* ------------------------------------------------------------------------

\* The keys of hand_rank_counter and of hand_suit_counter, in dict order.
hand_rank_counter == <<"A", "K", "Q", "J", "T", "9", "8", "7", "6", "5", "4", "3", "2">>
hand_suit_counter == <<"c", "d", "h", "s">>

hand_rank_names_singular ==
    [r \in Ranks |->
       CASE r = "A" -> "Ace" [] r = "K" -> "King" [] r = "Q" -> "Queen" [] r = "J" -> "Jack"
         [] r = "T" -> "Ten" [] r = "9" -> "Nine" [] r = "8" -> "Eight" [] r = "7" -> "Seven"
         [] r = "6" -> "Six" [] r = "5" -> "Five" [] r = "4" -> "Four" [] r = "3" -> "Three"
         [] r = "2" -> "Deuce"]

hand_rank_names_plural ==
    [r \in Ranks |->
       CASE r = "A" -> "Aces" [] r = "K" -> "Kings" [] r = "Q" -> "Queens" [] r = "J" -> "Jacks"
         [] r = "T" -> "Tens" [] r = "9" -> "Nines" [] r = "8" -> "Eights" [] r = "7" -> "Sevens"
         [] r = "6" -> "Sixes" [] r = "5" -> "Fives" [] r = "4" -> "Fours" [] r = "3" -> "Threes"
         [] r = "2" -> "Deuces"]

hand_rank_values ==
    [r \in Ranks |->
       CASE r = "A" -> 13 [] r = "K" -> 12 [] r = "Q" -> 11 [] r = "J" -> 10 [] r = "T" -> 9
         [] r = "9" -> 8 [] r = "8" -> 7 [] r = "7" -> 6 [] r = "6" -> 5 [] r = "5" -> 4
         [] r = "4" -> 3 [] r = "3" -> 2 [] r = "2" -> 1]

PokerHand ==
    [HIGH_CARD |-> 1, PAIR |-> 2, TWO_PAIR |-> 3, THREE_OF_KIND |-> 4, STRAIGHT |-> 5,
     FLUSH |-> 6, FULL_HOUSE |-> 7, FOUR_OF_KIND |-> 8, STRAIGHT_FLUSH |-> 9,
     ROYAL_FLUSH |-> 10]

BASE_K == 31

RECURSIVE pow(_, _)
pow(b, e) == IF e = 0 THEN 1 ELSE b * pow(b, e - 1)

\* hash_cards(cards): the list is reversed, then card i weighs BASE_K^i.
RECURSIVE hash_cards(_)
hash_cards(cards) ==
    IF cards = <<>> THEN 0
    ELSE hand_rank_values[cards[Len(cards)].rank]
           + BASE_K * hash_cards(SubSeq(cards, 1, Len(cards) - 1))

\* create_cards_histogram(cards)
create_cards_histogram(hand) ==
    [rank |-> [r \in Ranks |-> Cardinality({i \in 1..Len(hand) : hand[i].rank = r})],
     suit |-> [s \in Suits |-> Cardinality({i \in 1..Len(hand) : hand[i].suit = s})]]

\* [c for c in hand if c.rank not in ranks]
RECURSIVE WithoutRanks(_, _)
WithoutRanks(hand, ranks) ==
    IF hand = <<>> THEN <<>>
    ELSE (IF Head(hand).rank \in ranks THEN <<>> ELSE <<Head(hand)>>)
           \o WithoutRanks(Tail(hand), ranks)

\* The positions, in the order of hand_rank_counter, of the ranks that occur n times.
KeysWithCount(hist, n) == {i \in 1..Len(hand_rank_counter) : hist[hand_rank_counter[i]] = n}

Min(S) == CHOOSE x \in S : \A y \in S : x <= y

\* The k-th smallest member of a set of numbers
RECURSIVE Nth(_, _)
Nth(S, k) == IF k = 1 THEN Min(S) ELSE Nth(S \ {Min(S)}, k - 1)

\* high_card(hand): the loop returns at the first rank that occurs.
high_card(hand) ==
    LET hist == create_cards_histogram(hand).rank
        found == {i \in 1..Len(hand_rank_counter) : hist[hand_rank_counter[i]] > 0}
    IN IF found = {} THEN None
       ELSE [desc |-> <<"high", "card", hand_rank_names_singular[hand_rank_counter[Min(found)]]>>,
             category |-> PokerHand.HIGH_CARD,
             value |-> hash_cards(hand)]

\* is_pair(hand): the loop returns at the first rank that occurs twice.
is_pair(hand) ==
    LET hist == create_cards_histogram(hand).rank
        found == KeysWithCount(hist, 2)
    IN IF found = {} THEN None
       ELSE LET rank == hand_rank_counter[Min(found)]
                remaining_cards == WithoutRanks(hand, {rank})
            IN [desc |-> <<"a", "pair", "of", hand_rank_names_plural[rank]>>,
                category |-> PokerHand.PAIR,
                value |-> hash_cards(remaining_cards) + hand_rank_values[rank] * pow(BASE_K, 3)]

\* is_two_pair(hand): the loop returns when it meets the second rank that occurs twice.
is_two_pair(hand) ==
    LET hist == create_cards_histogram(hand).rank
        found == KeysWithCount(hist, 2)
    IN IF Cardinality(found) < 2 THEN None
       ELSE LET two_pair == <<hand_rank_counter[Nth(found, 1)], hand_rank_counter[Nth(found, 2)]>>
                remaining_card == WithoutRanks(hand, {two_pair[1], two_pair[2]})
            IN [desc |-> <<"two", "pair,", hand_rank_names_plural[two_pair[1]], "and",
                           hand_rank_names_plural[two_pair[2]]>>,
                category |-> PokerHand.TWO_PAIR,
                value |-> hash_cards(remaining_card)
                            + hand_rank_values[two_pair[2]] * pow(BASE_K, 1)
                            + hand_rank_values[two_pair[1]] * pow(BASE_K, 2)]

\* is_three_of_a_kind(hand)
is_three_of_a_kind(hand) ==
    LET hist == create_cards_histogram(hand).rank
        found == KeysWithCount(hist, 3)
    IN IF found = {} THEN None
       ELSE LET rank == hand_rank_counter[Min(found)]
                remaining_cards == WithoutRanks(hand, {rank})
            IN [desc |-> <<"three", "of", "a", "kind,", hand_rank_names_plural[rank]>>,
                category |-> PokerHand.THREE_OF_KIND,
                value |-> hash_cards(remaining_cards) + hand_rank_values[rank] * pow(BASE_K, 2)]

\* A plausible slip: the low-ace straight takes the ace for its top.
low_ace_top_ace == "A"

\* is_straight, low ace: "In this case, top is always 5"
low_ace_top == "5"

\* The loop of is_straight from position i on, with the streak counted so far.
RECURSIVE StraightLoop(_, _, _, _)
StraightLoop(hand, hist, i, streak) ==
    IF i > Len(hand_rank_counter) THEN None
    ELSE
      LET rank == hand_rank_counter[i]
          streak2 == IF i > 1 /\ hist[rank] > 0 /\ hist[hand_rank_counter[i - 1]] > 0
                     THEN streak + 1 ELSE 0
      IN IF streak2 >= 4
         THEN LET top_of_streak == hand_rank_counter[i - 4]
              IN [desc |-> <<"a", "straight,", hand_rank_names_singular[rank], "to",
                             hand_rank_names_singular[top_of_streak]>>,
                  category |-> PokerHand.STRAIGHT,
                  value |-> hand_rank_values[top_of_streak]]
         ELSE IF /\ i = Len(hand_rank_counter)
                 /\ streak2 = 3
                 /\ rank = "2"
                 /\ \E k \in 1..Len(hand) : hand[k].rank = "A"
         THEN [desc |-> <<"a", "straight,", hand_rank_names_singular["A"], "to",
                          hand_rank_names_singular[low_ace_top]>>,
               category |-> PokerHand.STRAIGHT,
               value |-> hand_rank_values[low_ace_top]]
         ELSE StraightLoop(hand, hist, i + 1, streak2)

\* is_straight(hand)
is_straight(hand) == StraightLoop(hand, create_cards_histogram(hand).rank, 1, 0)

\* [card for card in hand if suit_histogram[card.suit] >= 5]
RECURSIVE FlushCards(_, _)
FlushCards(hand, suit_histogram) ==
    IF hand = <<>> THEN <<>>
    ELSE (IF suit_histogram[Head(hand).suit] >= 5 THEN <<Head(hand)>> ELSE <<>>)
           \o FlushCards(Tail(hand), suit_histogram)

\* The flush hashed over its five cards, as the high card is.
is_flush_hashed(hand) ==
    LET flush_cards == FlushCards(hand, create_cards_histogram(hand).suit)
    IN IF Len(flush_cards) < 5 THEN None
       ELSE LET highest_card == flush_cards[1].rank
            IN [desc |-> <<"a", "flush,", hand_rank_names_singular[highest_card], "high">>,
                category |-> PokerHand.FLUSH,
                value |-> hash_cards(hand)]

\* is_flush(hand)
is_flush(hand) ==
    LET flush_cards == FlushCards(hand, create_cards_histogram(hand).suit)
    IN IF Len(flush_cards) < 5 THEN None
       ELSE LET highest_card == flush_cards[1].rank
            IN [desc |-> <<"a", "flush,", hand_rank_names_singular[highest_card], "high">>,
                category |-> PokerHand.FLUSH,
                value |-> hand_rank_values[highest_card]]

\* A plausible slip: the pair weighs more than the three of a kind.
full_house_hash_pair_first(three, pair) ==
    hand_rank_values[three] * pow(BASE_K, 0) + hand_rank_values[pair] * pow(BASE_K, 1)

\* is_full_house: "Hash value needs to prioritise the three of a kind over the pair"
full_house_hash(three, pair) ==
    hand_rank_values[pair] * pow(BASE_K, 0) + hand_rank_values[three] * pow(BASE_K, 1)

\* is_full_house(hand)
is_full_house(hand) ==
    LET hist == create_cards_histogram(hand).rank
        threes == KeysWithCount(hist, 3)
        pairs == KeysWithCount(hist, 2)
    IN IF threes = {} \/ pairs = {} THEN None
       ELSE LET highest_three_of_a_kind == hand_rank_counter[Min(threes)]
                highest_pair == hand_rank_counter[Min(pairs)]
            IN [desc |-> <<"a", "full", "house,", hand_rank_names_plural[highest_three_of_a_kind],
                           "full", "of", hand_rank_names_plural[highest_pair]>>,
                category |-> PokerHand.FULL_HOUSE,
                value |-> full_house_hash(highest_three_of_a_kind, highest_pair)]

\* is_four_of_a_kind(hand)
is_four_of_a_kind(hand) ==
    LET hist == create_cards_histogram(hand).rank
        found == KeysWithCount(hist, 4)
    IN IF found = {} THEN None
       ELSE LET rank == hand_rank_counter[Min(found)]
                remaining_card == WithoutRanks(hand, {rank})
            IN [desc |-> <<"four", "of", "a", "kind,", hand_rank_names_plural[rank]>>,
                category |-> PokerHand.FOUR_OF_KIND,
                value |-> hash_cards(remaining_card) + hand_rank_values[rank] * pow(BASE_K, 1)]

\* The loop of is_straight_flush from position i on (i > 1 is the code's i > 0).
\* The streak is counted up at every adjacent pair and is never reset.
RECURSIVE StraightFlushLoop(_, _, _, _)
StraightFlushLoop(hand, flush_cards, i, streak) ==
    IF i > Len(flush_cards) THEN None
    ELSE
      LET c == flush_cards[i]
          this_rank_index == Index(hand_rank_counter, c.rank)
          prev_rank_index == Index(hand_rank_counter, flush_cards[i - 1].rank)
          streak2 == IF this_rank_index = prev_rank_index + 1 THEN streak + 1 ELSE streak
      IN IF streak2 >= 4
         THEN LET top_of_streak == flush_cards[i - 4]
              IN [desc |-> <<"a", "straight", "flush,", hand_rank_names_singular[c.rank], "to",
                             hand_rank_names_singular[top_of_streak.rank]>>,
                  category |-> PokerHand.STRAIGHT_FLUSH,
                  value |-> hand_rank_values[top_of_streak.rank]]
         ELSE IF /\ i = Len(flush_cards)
                 /\ streak2 = 3
                 /\ c.rank = "2"
                 /\ \E k \in 1..Len(hand) : hand[k].rank = "A"
         THEN [desc |-> <<"a", "straight", "flush,", hand_rank_names_singular["A"], "to",
                          hand_rank_names_singular["5"]>>,
               category |-> PokerHand.STRAIGHT_FLUSH,
               value |-> hand_rank_values["5"]]
         ELSE StraightFlushLoop(hand, flush_cards, i + 1, streak2)

\* is_straight_flush(hand)
is_straight_flush(hand) ==
    LET flush_cards == FlushCards(hand, create_cards_histogram(hand).suit)
    IN IF Len(flush_cards) < 5 THEN None
       ELSE StraightFlushLoop(hand, flush_cards, 2, 0)

\* needle in haystack, for strings modelled as sequences
Contains(haystack, needle) ==
    \E k \in 0..(Len(haystack) - Len(needle)) :
        SubSeq(haystack, k + 1, k + Len(needle)) = needle

\* A plausible slip: any straight flush that names the ace is taken for a royal flush.
is_royal_flush_any_ace(hand) ==
    LET straight_flush == is_straight_flush(hand)
    IN IF straight_flush # None /\ Contains(straight_flush.desc, <<"Ace">>)
       THEN [desc |-> <<"a", "royal", "flush">>, category |-> PokerHand.ROYAL_FLUSH, value |-> 0]
       ELSE None

\* is_royal_flush(hand)
is_royal_flush(hand) ==
    LET straight_flush == is_straight_flush(hand)
    IN IF straight_flush # None /\ Contains(straight_flush.desc, <<"Ten", "to", "Ace">>)
       THEN [desc |-> <<"a", "royal", "flush">>, category |-> PokerHand.ROYAL_FLUSH, value |-> 0]
       ELSE None

\* The body of the loop over five_card_hands: the first test that answers.
BestValue(hand) ==
    LET rf == is_royal_flush(hand)
        sf == is_straight_flush(hand)
        fk == is_four_of_a_kind(hand)
        fh == is_full_house(hand)
        f == is_flush(hand)
        s == is_straight(hand)
        tk == is_three_of_a_kind(hand)
        tp == is_two_pair(hand)
        p == is_pair(hand)
    IN IF rf # None THEN rf
       ELSE IF sf # None THEN sf
       ELSE IF fk # None THEN fk
       ELSE IF fh # None THEN fh
       ELSE IF f # None THEN f
       ELSE IF s # None THEN s
       ELSE IF tk # None THEN tk
       ELSE IF tp # None THEN tp
       ELSE IF p # None THEN p
       ELSE high_card(hand)

\* cards.sort(reverse=True): a stable sort into descending order; a < b is
\* answered by b.__gt__(a), the only comparison Card defines.
RECURSIVE InsertCard(_, _)
InsertCard(sorted, c) ==
    IF sorted = <<>> THEN <<c>>
    ELSE IF CardGt(c, Head(sorted)) THEN <<c>> \o sorted
    ELSE <<Head(sorted)>> \o InsertCard(Tail(sorted), c)

\* A plausible slip: the list is evaluated in the order it came in.
SortCardsSkipped(cards) == cards

RECURSIVE SortCards(_)
SortCards(cards) ==
    IF cards = <<>> THEN <<>>
    ELSE InsertCard(SortCards(SubSeq(cards, 1, Len(cards) - 1)), cards[Len(cards)])

\* itertools.combinations(seq, r), in its order
RECURSIVE combinations(_, _)
combinations(seq, r) ==
    IF r = 0 THEN << <<>> >>
    ELSE IF Len(seq) < r THEN <<>>
    ELSE LET with == combinations(Tail(seq), r - 1)
         IN [i \in 1..Len(with) |-> <<Head(seq)>> \o with[i]] \o combinations(Tail(seq), r)

\* list.sort(key=..., reverse=True) on hands_with_value: stable, descending by field f.
RECURSIVE InsertByKey(_, _, _)
InsertByKey(sorted, h, f) ==
    IF sorted = <<>> THEN <<h>>
    ELSE IF h[f] > Head(sorted)[f] THEN <<h>> \o sorted
    ELSE <<Head(sorted)>> \o InsertByKey(Tail(sorted), h, f)

RECURSIVE SortByKey(_, _)
SortByKey(hands, f) ==
    IF hands = <<>> THEN <<>>
    ELSE InsertByKey(SortByKey(SubSeq(hands, 1, Len(hands) - 1), f), hands[Len(hands)], f)

IndexError == [exception |-> "IndexError"]

\* eval_final_hand(cards), given the list as cards.sort left it
EvalSorted(sorted) ==
    LET five_card_hands == combinations(sorted, 5)
        hands_with_value == [i \in 1..Len(five_card_hands) |-> BestValue(five_card_hands[i])]
        by_value == SortByKey(hands_with_value, "value")
        by_category == SortByKey(by_value, "category")
    IN IF by_category = <<>> THEN IndexError ELSE by_category[1]

\* eval_final_hand(cards): what it returns
eval_final_hand(cards) == EvalSorted(SortCards(cards))

\* ------------------------------------------------------------------------
\* player.py, seat.py, action.py, hand.py: the data model
\* ------------------------------------------------------------------------
\* A text the program cuts into pieces is kept as its pieces (a name as its
\* characters, a summary as its words); a text it only builds and prints is a
\* string.  An optional scalar is a tuple of at most one member, None being
\* <<>>.  A Seat or a Player a hand refers to is its position in hand.seats or
\* hand.players, and 0 is None: both lists are only ever appended to.

\* "".join(pieces)
RECURSIVE Str(_)
Str(pieces) == IF pieces = <<>> THEN "" ELSE Head(pieces) \o Str(Tail(pieces))

\* " ".join(words)
RECURSIVE Join(_)
Join(words) ==
    IF words = <<>> THEN ""
    ELSE IF Len(words) = 1 THEN words[1]
    ELSE words[1] \o " " \o Join(Tail(words))

\* The "Player @ ID" of the log, cut at " @ ".
NameWithId(player_name, player_id) == [name |-> player_name, id |-> player_id]

\* Player(player_name, player_name_with_id, player_id)
Player(player_name, player_name_with_id, player_id) ==
    [player_name |-> player_name,
     player_id |-> player_id,
     player_name_with_id |-> player_name_with_id,
     alias_name |-> <<>>]

\* Seat(seat_player, seat_number, stack_size)
Seat(seat_player, seat_number, stack_size) ==
    [seat_number |-> seat_number,
     seat_player |-> seat_player,
     stack_size |-> stack_size,
     seat_desc |-> "",
     seat_summary |-> <<"didn't", "show", "and", "lost">>,
     seat_run_it_twice_summary |-> <<>>,
     seat_hand |-> "",
     seat_hole_cards |-> "",
     seat_hole_cards_obj |-> <<>>,
     seat_did_bet |-> FALSE,
     collected_amount |-> 0,
     collected_amount_second_run |-> 0]

\* Action(player, action, bet_amount, bet_difference, cards_shown)
Action(player, action, bet_amount, bet_difference, cards_shown) ==
    [player |-> player,
     action |-> action,
     bet_amount |-> bet_amount,
     bet_difference |-> bet_difference,
     cards_shown |-> cards_shown]

\* str(None)
NoneStr == "None"

\* Hand(): every field at its default.  is_bomb_pot and uncalledBetSize are
\* the two attributes the parser adds to the object (game.py 118, 238).
Hand ==
    [raw_strings |-> <<>>,
     hand_type |-> NoneStr,
     hand_start_datetime |-> <<>>,
     hand_number |-> 0,
     seats |-> <<>>,
     hole_cards |-> <<>>,
     flop_cards |-> <<>>,
     turn_card |-> None,
     river_card |-> None,
     board |-> <<>>,
     total_pot |-> 0,
     run_it_twice |-> FALSE,
     run_it_twice_from_street |-> NoneStr,
     run_it_twice_flop_cards |-> <<>>,
     run_it_twice_turn_card |-> None,
     run_it_twice_river_card |-> None,
     run_it_twice_board |-> <<>>,
     players |-> <<>>,
     dealer |-> None,
     hero_player |-> 0,
     small_blind_player |-> 0,
     small_blind_seat |-> 0,
     small_blind_amount |-> 0,
     big_blind_players |-> <<>>,
     big_blind_seats |-> <<>>,
     big_blind_amount |-> 0,
     straddle_player |-> 0,
     straddle_seat |-> 0,
     straddle_amount |-> 0,
     antes |-> <<>>,
     missing_small_blinds |-> <<>>,
     pre_flop_actions |-> <<>>,
     flop_actions |-> <<>>,
     turn_actions |-> <<>>,
     river_actions |-> <<>>,
     showdown_actions |-> <<>>,
     run_it_twice_showdown_actions |-> <<>>,
     is_bomb_pot |-> FALSE,
     uncalledBetSize |-> 0]

\* next((x for x in xs if test), None), given the places in xs that pass the
\* test: the first of them, 0 for None
FirstWhere(found) == IF found = {} THEN 0 ELSE CHOOSE i \in found : \A j \in found : i <= j

\* Hand.get_seat_by_player_name_with_id
get_seat_by_player_name_with_id(self, player_name_with_id) ==
    FirstWhere({i \in DOMAIN self.seats :
                  self.players[self.seats[i].seat_player].player_name_with_id
                      = player_name_with_id})

\* Hand.get_player_by_player_name_with_id
get_player_by_player_name_with_id(self, player_name_with_id) ==
    FirstWhere({i \in DOMAIN self.players :
                  self.players[i].player_name_with_id = player_name_with_id})

\* ------------------------------------------------------------------------
\* hand.py: the formatter
\* ------------------------------------------------------------------------

AttributeError == [exception |-> "AttributeError"]
KeyError == [exception |-> "KeyError"]
PNLogParsingException == [exception |-> "PNLogParsingException"]

\* Whether a call ended in an exception instead of a value.
Raised(result) == "exception" \in DOMAIN result

\* f"{currency_symbol}{amount:,.2f}" of an amount of whole units below 1000
Money(currency_symbol, amount) == currency_symbol \o ToString(amount) \o ".00"

\* player.alias_name or player.player_name
DisplayName(player) ==
    IF player.alias_name # <<>> /\ player.alias_name[1] # <<>>
    THEN Str(player.alias_name[1])
    ELSE Str(player.player_name)

\* " ".join(list(map(lambda x: x.card_str, cards)))
CardsStr(card_list) == Join([i \in 1..Len(card_list) |-> Str(card_list[i].card_str)])

\* The generator of the random module, shared by every caller in the process.
\* Its states are the numbers below RandomModulus.
RandomModulus == 64

\* The code points of the characters that file stems are written with.
Alphabet == <<"a", "b", "c", "-", "0", "1", "2", "3", "4", "5", "6", "7", "8", "9">>

RECURSIVE HashChars(_, _)
HashChars(chars, h) ==
    IF chars = <<>> THEN h
    ELSE HashChars(Tail(chars), (h * 31 + Index(Alphabet, Head(chars))) % RandomModulus)

\* The digits of a natural number, as str(n) writes them.
RECURSIVE Digits(_)
Digits(n) == IF n < 10 THEN <<Alphabet[n + 5]>> ELSE Digits(n \div 10) \o <<Alphabet[(n % 10) + 5]>>

\* f"{Path(file_path_seed).stem}-{self.hand_number}"
random_seed(file_path_seed, hand_number) == file_path_seed.stem \o <<"-">> \o Digits(hand_number)

\* random.seed(a) for a string a: the state is a function of the string alone.
seed(a) == HashChars(a, 7)

\* The generator's step: the state after a draw, which is also the number drawn.
getrandbits(state) == (state * 21 + 11) % RandomModulus

\* A slip that would break reproducibility: the draw continues from whatever
\* state the generator was left in, the seed being ignored.
HandIdUnseeded(state, file_path_seed, hand_number, entropy) == getrandbits(state)

\* hand.py 240-242: seed(a=random_seed) then getrandbits(64).  With no path the
\* generator seeds itself from the system's entropy.
HandId(state, file_path_seed, hand_number, entropy) ==
    IF file_path_seed # <<>>
    THEN getrandbits(seed(random_seed(file_path_seed[1], hand_number)))
    ELSE getrandbits(entropy)

\* datetime.strftime(f"%Y/%m/%d %H:%M:%S {timezone}") of a time of day given
\* in minutes after 12:00 on the day of the log
DateFormatted(minutes, timezone) ==
    "2021/06/01 12:" \o (IF minutes < 10 THEN "0" ELSE "") \o ToString(minutes) \o ":00 " \o timezone

\* One line of format_actions_pokerstars
ActionLine(self, action, currency_symbol) ==
    LET who == DisplayName(self.players[action.player])
    IN CASE action.action = "bet" ->
              who \o ": bets " \o Money(currency_symbol, action.bet_amount)
         [] action.action = "check" -> who \o ": checks"
         [] action.action = "fold" -> who \o ": folds"
         [] action.action = "call" ->
              who \o ": calls " \o Money(currency_symbol, action.bet_amount)
         [] action.action = "raise" ->
              who \o ": raises " \o Money(currency_symbol, action.bet_difference)
                  \o " to " \o Money(currency_symbol, action.bet_amount)
         [] action.action = "uncalled bet" ->
              "Uncalled bet (" \o Money(currency_symbol, action.bet_amount) \o ") returned to " \o who
         [] action.action = "show" -> who \o ": shows " \o action.cards_shown
         [] action.action = "collect" ->
              who \o " collected " \o Money(currency_symbol, action.bet_amount) \o " from pot"

ActionNames == {"bet", "check", "fold", "call", "raise", "uncalled bet", "show", "collect"}

\* Hand.format_actions_pokerstars(action_list, currency_symbol): the lines, or
\* the exception of the first action that has no player or no known name.
format_actions_pokerstars(self, action_list, currency_symbol) ==
    LET bad == FirstWhere({i \in DOMAIN action_list :
                             \/ action_list[i].action \notin ActionNames
                             \/ action_list[i].player = 0})
    IN IF bad = 0
       THEN [lines |-> [i \in 1..Len(action_list) |-> ActionLine(self, action_list[i], currency_symbol)]]
       ELSE IF action_list[bad].action \in ActionNames THEN AttributeError
       ELSE PNLogParsingException

\* The first exception among the results, else all their lines in order.
RECURSIVE Chain(_)
Chain(results) ==
    IF results = <<>> THEN [lines |-> <<>>]
    ELSE IF Raised(Head(results)) THEN Head(results)
    ELSE LET rest == Chain(Tail(results))
         IN IF Raised(rest) THEN rest ELSE [lines |-> Head(results).lines \o rest.lines]

\* A slip in the fallback: with no seat to start from, the button is taken
\* to be the last seat of the table.
ButtonSeatIdLast(self) ==
    IF self.dealer = None
    THEN LET available_seats == {i \in 1..Len(self.seats) : self.seats[i].stack_size > 0}
         IN IF available_seats # {}
            THEN IF self.big_blind_seats = <<>> THEN IndexError
                 ELSE [id |-> ((self.seats[self.big_blind_seats[1]].seat_number - 3) % 10) + 1]
            ELSE [id |-> 10]
    ELSE LET button_seat == get_seat_by_player_name_with_id(self, self.dealer.player_name_with_id)
         IN IF button_seat = 0 THEN AttributeError
            ELSE [id |-> self.seats[button_seat].seat_number]

\* The fallback without the wrap around the table.
ButtonSeatIdUnwrapped(self) ==
    IF self.dealer = None
    THEN LET available_seats == {i \in 1..Len(self.seats) : self.seats[i].stack_size > 0}
         IN IF available_seats # {}
            THEN IF self.big_blind_seats = <<>> THEN IndexError
                 ELSE [id |-> self.seats[self.big_blind_seats[1]].seat_number - 2]
            ELSE [id |-> 1]
    ELSE LET button_seat == get_seat_by_player_name_with_id(self, self.dealer.player_name_with_id)
         IN IF button_seat = 0 THEN AttributeError
            ELSE [id |-> self.seats[button_seat].seat_number]

\* hand.py 252-265: the seat number of the button
ButtonSeatId(self) ==
    IF self.dealer = None
    THEN LET available_seats == {i \in 1..Len(self.seats) : self.seats[i].stack_size > 0}
         IN IF available_seats # {}
            THEN IF self.big_blind_seats = <<>> THEN IndexError
                 ELSE [id |-> ((self.seats[self.big_blind_seats[1]].seat_number - 3) % 10) + 1]
            ELSE [id |-> 1]
    ELSE LET button_seat == get_seat_by_player_name_with_id(self, self.dealer.player_name_with_id)
         IN IF button_seat = 0 THEN AttributeError
            ELSE [id |-> self.seats[button_seat].seat_number]

\* The lines that name one player each: f"{player.alias_name or player.player_name}{text}"
PostingLines(self, refs, text) ==
    IF \E i \in 1..Len(refs) : refs[i] = 0 THEN AttributeError
    ELSE [lines |-> [i \in 1..Len(refs) |-> DisplayName(self.players[refs[i]]) \o text]]

\* hand.py 278-280
AnteLines(self, currency_symbol) ==
    IF \E i \in 1..Len(self.antes) : self.antes[i].player = 0 THEN AttributeError
    ELSE [lines |-> [i \in 1..Len(self.antes) |->
            DisplayName(self.players[self.antes[i].player]) \o ": posts the ante "
                \o Money(currency_symbol, self.antes[i].amount)]]

\* The heading written after the actions of its street.
StreetLinesHeadingLast(self, heading, action_list, currency_symbol) ==
    Chain(<<format_actions_pokerstars(self, action_list, currency_symbol), [lines |-> <<heading>>]>>)

\* A street's heading followed by the street's actions
StreetLines(self, heading, action_list, currency_symbol) ==
    Chain(<<[lines |-> <<heading>>], format_actions_pokerstars(self, action_list, currency_symbol)>>)

\* hand.py 236-387: everything format_as_pokerstars_hand writes before the
\* seats' summary lines, given the hand id drawn
HeadLines(self, hand_id, currency, currency_symbol, timezone) ==
    LET big_blind == Money(currency_symbol, self.big_blind_amount)
        small_blind == Money(currency_symbol, self.small_blind_amount)
        straddle == Money(currency_symbol, self.straddle_amount)
        button == ButtonSeatId(self)
        flop_cards == CardsStr(self.flop_cards)
        turn_card == IF self.turn_card = None THEN NoneStr ELSE Str(self.turn_card.card_str)
        river_card == IF self.river_card = None THEN NoneStr ELSE Str(self.river_card.card_str)
        flop_shown == IF self.flop_cards # <<>> THEN flop_cards ELSE NoneStr
        second_flop_cards == CardsStr(self.run_it_twice_flop_cards)
        second_flop_or_flop == IF self.run_it_twice_flop_cards # <<>> THEN second_flop_cards ELSE flop_shown
        second_turn_or_turn == IF self.run_it_twice_turn_card # None
                               THEN Str(self.run_it_twice_turn_card.card_str) ELSE turn_card
    IN IF self.hand_start_datetime = <<>> THEN AttributeError
       ELSE IF Raised(button) THEN button
       ELSE Chain(<<
         [lines |-> <<
            "PokerStars Hand #" \o ToString(hand_id) \o ": " \o self.hand_type
               \o " (" \o small_blind \o "/" \o big_blind \o " " \o currency \o ") - "
               \o DateFormatted(self.hand_start_datetime[1], timezone),
            "Table 'PNLogConverter' 10-max Seat #" \o ToString(button.id) \o " is the button">>],
         [lines |-> [i \in 1..Len(self.seats) |->
            "Seat " \o ToString(self.seats[i].seat_number) \o ": "
               \o DisplayName(self.players[self.seats[i].seat_player])
               \o " (" \o Money(currency_symbol, self.seats[i].stack_size) \o " in chips)"]],
         AnteLines(self, currency_symbol),
         IF self.small_blind_player # 0
            THEN PostingLines(self, <<self.small_blind_player>>, ": posts small blind " \o small_blind)
            ELSE [lines |-> <<>>],
         PostingLines(self, self.big_blind_players, ": posts big blind " \o big_blind),
         IF self.straddle_player # 0
            THEN PostingLines(self, <<self.straddle_player>>, ": straddle " \o straddle)
            ELSE [lines |-> <<>>],
         PostingLines(self, self.missing_small_blinds, ": posts small blind " \o small_blind),
         [lines |-> <<"*** HOLE CARDS ***">>],
         IF self.hero_player # 0 /\ self.hole_cards # <<>>
            THEN [lines |-> <<"Dealt to " \o DisplayName(self.players[self.hero_player])
                               \o " [" \o CardsStr(self.hole_cards) \o "]">>]
            ELSE [lines |-> <<>>],
         format_actions_pokerstars(self, self.pre_flop_actions, currency_symbol),
         IF self.flop_cards # <<>>
            THEN StreetLines(self,
                   (IF self.run_it_twice_flop_cards # <<>> THEN "*** FIRST FLOP *** [" ELSE "*** FLOP *** [")
                      \o flop_cards \o "]",
                   self.flop_actions, currency_symbol)
            ELSE [lines |-> <<>>],
         IF self.turn_card # None
            THEN StreetLines(self,
                   (IF self.run_it_twice_turn_card # None THEN "*** FIRST TURN *** [" ELSE "*** TURN *** [")
                      \o flop_shown \o "] [" \o turn_card \o "]",
                   self.turn_actions, currency_symbol)
            ELSE [lines |-> <<>>],
         IF self.river_card # None
            THEN StreetLines(self,
                   (IF self.run_it_twice_river_card # None THEN "*** FIRST RIVER *** [" ELSE "*** RIVER *** [")
                      \o flop_shown \o " " \o turn_card \o "] [" \o river_card \o "]",
                   self.river_actions, currency_symbol)
            ELSE [lines |-> <<>>],
         [lines |->
            (IF self.run_it_twice_flop_cards # <<>>
             THEN <<"*** SECOND FLOP *** [" \o second_flop_cards \o "]">> ELSE <<>>)
            \o (IF self.run_it_twice_turn_card # None
                THEN <<"*** SECOND TURN *** [" \o second_flop_or_flop \o "] ["
                         \o Str(self.run_it_twice_turn_card.card_str) \o "]">>
                ELSE <<>>)
            \o (IF self.run_it_twice_river_card # None
                THEN <<"*** SECOND RIVER *** [" \o second_flop_or_flop \o " " \o second_turn_or_turn
                         \o "] [" \o Str(self.run_it_twice_river_card.card_str) \o "]">>
                ELSE <<>>)],
         StreetLines(self,
            IF self.run_it_twice THEN "*** FIRST SHOW DOWN ***" ELSE "*** SHOW DOWN ***",
            self.showdown_actions, currency_symbol),
         IF self.run_it_twice
            THEN StreetLines(self, "*** SECOND SHOW DOWN ***",
                             self.run_it_twice_showdown_actions, currency_symbol)
            ELSE [lines |-> <<>>],
         [lines |->
            <<"*** SUMMARY ***",
              "Total pot: " \o Money(currency_symbol, self.total_pot) \o " | Rake 0">>
            \o (IF self.run_it_twice
                THEN <<"Hand was run twice">>
                       \o (IF self.board # <<>>
                           THEN <<"FIRST Board [" \o CardsStr(self.board) \o "]">> ELSE <<>>)
                       \o (IF self.run_it_twice_board # <<>>
                           THEN <<"SECOND Board [" \o CardsStr(self.run_it_twice_board) \o "]">>
                           ELSE <<>>)
                ELSE IF self.board # <<>>
                THEN <<"Board [" \o CardsStr(self.board) \o "]">>
                ELSE <<>>)]
       >>)

\* hand.py 390-410: one pass of the loop over the seats.  The seat comes back
\* as the pass left it, also when the pass ends in an exception.
SeatSummary(self, seat, currency_symbol) ==
    LET known == seat.seat_hole_cards # ""
        Pass(first, second) ==
            LET seat1 == IF first = None \/ Raised(first) THEN seat
                         ELSE [seat EXCEPT !.seat_summary =
                                 <<"showed", seat.seat_hole_cards, "and", "lost", "with">>
                                   \o first.desc]
                seat2 == IF second = None \/ Raised(second) THEN seat1
                         ELSE [seat1 EXCEPT !.seat_run_it_twice_summary =
                                 <<",", "and", "lost", "with">> \o second.desc]
                summary_line == "Seat " \o ToString(seat2.seat_number) \o ": "
                                  \o DisplayName(self.players[seat2.seat_player])
                                  \o seat2.seat_desc \o " " \o Join(seat2.seat_summary)
                                  \o Join(seat2.seat_run_it_twice_summary)
            IN IF Raised(first) THEN [seat |-> seat, result |-> first]
               ELSE IF Raised(second) THEN [seat |-> seat1, result |-> second]
               ELSE [seat |-> seat2,
                     result |-> [lines |-> <<IF ~Contains(seat2.seat_summary, <<"showed">>)
                                                  /\ known
                                             THEN summary_line \o " " \o seat2.seat_hole_cards
                                             ELSE summary_line>>]]
    IN Pass(IF seat.seat_summary = <<"didn't", "show", "and", "lost">> /\ known
            THEN eval_final_hand(seat.seat_hole_cards_obj \o self.board)
            ELSE None,
            IF self.run_it_twice /\ seat.seat_run_it_twice_summary = <<>> /\ known
            THEN eval_final_hand(seat.seat_hole_cards_obj \o self.run_it_twice_board)
            ELSE None)

\* The loop over self.seats from seat k on: the seats as the loop leaves them
\* and the lines written, or the exception that ended it.
RECURSIVE SummaryLoop(_, _, _, _, _)
SummaryLoop(self, k, seats, lines, currency_symbol) ==
    IF k > Len(seats) THEN [seats |-> seats, result |-> [lines |-> lines]]
    ELSE LET Then(pass) ==
                 IF Raised(pass.result)
                 THEN [seats |-> [seats EXCEPT ![k] = pass.seat], result |-> pass.result]
                 ELSE SummaryLoop(self, k + 1, [seats EXCEPT ![k] = pass.seat],
                                  lines \o pass.result.lines, currency_symbol)
         IN Then(SeatSummary(self, seats[k], currency_symbol))

\* Hand.format_as_pokerstars_hand: the hand as the call leaves it, the state
\* it leaves the generator in, and the lines returned or the exception raised.
format_as_pokerstars_hand(self, currency, currency_symbol, timezone, file_path_seed, state, entropy) ==
    LET Then(hand_id, head, loop) ==
            IF Raised(head) THEN [self |-> self, rng |-> hand_id, result |-> head]
            ELSE [self |-> [self EXCEPT !.seats = loop.seats],
                  rng |-> hand_id,
                  result |-> Chain(<<head, loop.result>>)]
        Id(hand_id) ==
            Then(hand_id, HeadLines(self, hand_id, currency, currency_symbol, timezone),
                 SummaryLoop(self, 1, self.seats, <<>>, currency_symbol))
    IN Id(HandId(state, file_path_seed, self.hand_number, entropy))

\* ------------------------------------------------------------------------
\* game.py: the lines of a PokerNow log
\* ------------------------------------------------------------------------
\* A line is kept as what the parser reads in it: the phrase it opens with or
\* is recognised by (text), the other phrases the parser looks for (has), the
\* quoted "Player @ ID", the number and the card tokens written in it, and for
\* a stack line its entries.  A row is the line and the time in its second cell.

NoPlayer == NameWithId(<<>>, "")

LogLine(text, has, player, number, card_tokens, stacks) ==
    [text |-> text, has |-> has, player |-> player, number |-> number,
     cards |-> card_tokens, stacks |-> stacks]

\* phrase in line
In(phrase, line) == line.text = phrase \/ phrase \in line.has

\* line.startswith(phrase)
StartsWith(line, phrase) == line.text = phrase

\* line.replace(phrase, "") and line.replace(phrase, other)
Remove(line, phrase) == [line EXCEPT !.has = @ \ {phrase}]
Replace(line, phrase, other) ==
    IF line.text = phrase THEN [line EXCEPT !.text = other]
    ELSE IF phrase \in line.has THEN [line EXCEPT !.has = (@ \ {phrase}) \cup {other}]
    ELSE line

\* The test of each branch of the loop of Game.__init__, in the order of the
\* if/elif chain; the last two names are the two halves of the else branch.
Branch(line) ==
    IF In("-- starting hand ", line) THEN "starting hand"
    ELSE IF In("-- ending hand ", line) THEN "ending hand"
    ELSE IF In("posts a bet of", line) /\ In("bomb pot bet", line) THEN "bomb pot"
    ELSE IF In("\" raises", line) THEN "raises"
    ELSE IF In("\" bets", line) THEN "bets"
    ELSE IF In("\" calls", line) THEN "calls"
    ELSE IF In("\" checks", line) THEN "checks"
    ELSE IF StartsWith(line, "Uncalled bet") THEN "uncalled bet"
    ELSE IF In("\" folds", line) THEN "folds"
    ELSE IF In(" big blind of ", line) THEN "big blind"
    ELSE IF In(" posts a straddle ", line) THEN "straddle"
    ELSE IF In(" small blind of ", line) THEN "small blind"
    ELSE IF StartsWith(line, "Players stacks") THEN "players stacks"
    ELSE IF StartsWith(line, "Player stacks") THEN "player stacks"
    ELSE IF StartsWith(line, "Your hand") THEN "your hand"
    ELSE IF StartsWith(line, "flop:") \/ StartsWith(line, "Flop:") THEN "flop"
    ELSE IF StartsWith(line, "turn:") \/ StartsWith(line, "Turn:") THEN "turn"
    ELSE IF StartsWith(line, "river:") \/ StartsWith(line, "River:") THEN "river"
    ELSE IF StartsWith(line, "Flop (second run):") THEN "second flop"
    ELSE IF StartsWith(line, "Turn (second run):") THEN "second turn"
    ELSE IF StartsWith(line, "River (second run):") THEN "second river"
    ELSE IF In("\" shows a ", line) THEN "shows"
    ELSE IF In("\" collected ", line) \/ In("\" gained ", line) \/ In(" wins ", line) THEN "collected"
    ELSE IF line.text = "All players in hand choose to run it twice." THEN "run it twice"
    ELSE IF In(" posts an ante of ", line) THEN "ante"
    ELSE "not considered"

\* defaultdict(float): d[key], and d after d[key] = value
Get(dict, key) == IF key \in DOMAIN dict THEN dict[key] ELSE 0
Put(dict, key, value) == [k \in DOMAIN dict \cup {key} |-> IF k = key THEN value ELSE dict[k]]

\* The attribute of a Hand that street_action_dict gives each street state
street_action_lists ==
    ("before Flop" :> "pre_flop_actions")
      @@ ("on the Flop" :> "flop_actions")
      @@ ("on the Turn" :> "turn_actions")
      @@ ("on the River" :> "river_actions")
      @@ ("at Showdown" :> "showdown_actions")
      @@ ("at second Showdown" :> "run_it_twice_showdown_actions")

\* Game.preprocess_log, for one quoted player: spaces and double quotes are
\* taken out of the name, the id is kept.
RECURSIVE StripName(_)
StripName(chars) ==
    IF chars = <<>> THEN <<>>
    ELSE (IF Head(chars) \in {" ", "\""} THEN <<>> ELSE <<Head(chars)>>) \o StripName(Tail(chars))

ProcessedPlayer(player) == NameWithId(StripName(player.name), player.id)

\* Game.preprocess_log(poker_now_log): every quoted player of every row
preprocess_log(poker_now_log) ==
    [i \in 1..Len(poker_now_log) |->
        [poker_now_log[i] EXCEPT
            !.line.player = ProcessedPlayer(@),
            !.line.stacks = [k \in 1..Len(@) |-> [@[k] EXCEPT !.player = ProcessedPlayer(@)]]]]

\* ------------------------------------------------------------------------
\* State
\* ------------------------------------------------------------------------

VARIABLES
    name,        \* the token handed to Card(name)
    card,        \* the Card built from it, None before the call
    cards,       \* the list a caller hands to eval_final_hand
    best_hand,   \* what eval_final_hand returned for it, None before the call
    first_hand,  \* what the first call on these cards returned
    log,                          \* poker_now_log: the rows handed to Game(...)
    original_file_path,           \* Game.original_file_path
    game,                         \* where the Game is: "none", "constructing", "built", or the exception that ended __init__
    games,                        \* how many times Game(...) has been called on the rows
    row,                          \* how many rows the loop of __init__ has processed
    hands,                        \* the Hand objects allocated so far; hands[1] is the Hand() of game.py 59
    current_hand,                 \* which of them current_hand is
    current_hand_state,
    current_hand_street_max_bet,
    prev_action_dict,
    street_action_dict,           \* whose action lists street_action_dict holds, 0 for {}
    hand_list,                    \* Game.hand_list: the hands appended, by their place in hands
    seen_players,                 \* Game.seen_players
    rng,                          \* the state of the generator of the random module
    outputs,                      \* what each call of format_as_pokerstars_log returned or raised
    args,                         \* main: the arguments of the run (aliases, heroName)
    files,                        \* main: files_to_convert, each file as the rows read from it
    run_state,                       \* main: where the run is, or the exception that ended it
    applied,                      \* main: how many of the aliases have been applied to the parsed game
    returned,                     \* what the last call of update_player_aliases or set_hero returned
    formatters                    \* the calls of format_as_pokerstars_log under way at the same time

CardVars == <<name, card>>
EvalVars == <<cards, best_hand, first_hand>>
LoopVars == <<row, hands, current_hand, current_hand_state, current_hand_street_max_bet,
              prev_action_dict, street_action_dict, hand_list>>
GameVars == <<log, original_file_path, game, games, seen_players, rng, outputs, LoopVars>>
RunVars == <<args, files, run_state, applied, returned>>
vars == <<CardVars, EvalVars, GameVars, RunVars, formatters>>

CardIdle == name = <<>> /\ card = None
EvalIdle == cards = <<>> /\ best_hand = None /\ first_hand = None
GameIdle ==
    /\ log = <<>> /\ original_file_path = <<>> /\ game = "none" /\ games = 0
    /\ row = 0 /\ hands = <<>> /\ current_hand = 0
    /\ current_hand_state = "before Flop" /\ current_hand_street_max_bet = 0
    /\ prev_action_dict = <<>> /\ street_action_dict = 0
    /\ hand_list = <<>> /\ seen_players = {} /\ rng = 0 /\ outputs = <<>>
RunIdle ==
    /\ args = <<>> /\ files = <<>> /\ run_state = "none" /\ applied = 0 /\ returned = <<>>
NoFormatters == formatters = <<>>

\* ------------------------------------------------------------------------
\* Bounds and the inputs drawn within them
\* ------------------------------------------------------------------------

\* How many cards of each deal (below) are in play.
DeckSize == 9
\* The longest list handed to eval_final_hand.
MaxCards == 7
\* The same two bounds for the lists that are reordered between calls.
PermDeckSize == 6
MaxPermCards == 6

\* The plain tokens as the tests write them: the suit, then the rank.
Spade(rank) == <<"s", rank>>
Heart(rank) == <<"h", rank>>
Diamond(rank) == <<"d", rank>>
Club(rank) == <<"c", rank>>

\* Five deals, each in the order its cards come off the deck.
Deals ==
    << <<Spade("T"), Heart("A"), Spade("Q"), Spade("A"), Spade("9"), Spade("K"), Spade("J"), Heart("T"), Diamond("2"), Spade("8")>>,
       <<Spade("3"), Heart("A"), Spade("5"), Spade("A"), Heart("2"), Spade("4"), Heart("6"), Diamond("5"), Diamond("3"), Spade("2")>>,
       <<Spade("2"), Spade("K"), Spade("4"), Spade("A"), Spade("3"), Spade("Q"), Spade("J"), Heart("5"), Spade("5"), Spade("7")>>,
       <<Heart("K"), Spade("A"), Diamond("2"), Heart("A"), Spade("K"), Spade("2"), Diamond("A"), Diamond("K"), Club("A"), Heart("2")>>,
       <<Spade("9"), Heart("3"), Diamond("K"), Club("9"), Spade("3"), Heart("J"), Diamond("7"), Club("2"), Spade("K"), Heart("7")>> >>

PermDeal == <<Spade("5"), Spade("A"), Heart("5"), Spade("2"), Spade("4"), Spade("3"), Spade("K"), Diamond("9")>>

\* [Card(x) for x in tokens]
CardList(tokens) == [i \in 1..Len(tokens) |-> Card(tokens[i])]

\* The subsequences of seq that have n members, each in the order of seq.
RECURSIVE SubLists(_, _)
SubLists(seq, n) ==
    IF n = 0 THEN {<<>>}
    ELSE IF Len(seq) < n THEN {}
    ELSE {<<Head(seq)>> \o t : t \in SubLists(Tail(seq), n - 1)} \cup SubLists(Tail(seq), n)

Prefix(seq, n) == SubSeq(seq, 1, IF n < Len(seq) THEN n ELSE Len(seq))

\* The lists of 5 to most cards dealt from the first size cards of a deal.
DealtLists(deal, size, most) ==
    UNION {SubLists(CardList(Prefix(deal, size)), n) : n \in 5..most}

EvalInputs == UNION {DealtLists(Deals[d], DeckSize, MaxCards) : d \in 1..Len(Deals)}
PermInputs == DealtLists(PermDeal, PermDeckSize, MaxPermCards)

\* ------------------------------------------------------------------------
\* The evaluator as a state machine
\* ------------------------------------------------------------------------

InitEval ==
    /\ CardIdle
    /\ GameIdle
    /\ RunIdle /\ NoFormatters
    /\ cards \in EvalInputs
    /\ best_hand = None
    /\ first_hand = None

InitPerm ==
    /\ CardIdle
    /\ GameIdle
    /\ RunIdle /\ NoFormatters
    /\ cards \in PermInputs
    /\ best_hand = None
    /\ first_hand = None

\* A call of eval_final_hand(cards): cards.sort sorts the caller's list in place.
EvalFinalHand ==
    /\ best_hand = None
    /\ cards' = SortCards(cards)
    /\ best_hand' = EvalSorted(cards')
    /\ first_hand' = IF first_hand = None THEN best_hand' ELSE first_hand
    /\ UNCHANGED <<CardVars, GameVars, RunVars, formatters>>

\* The caller swaps two cards of its list before it calls again.
Reorder ==
    /\ \E i \in 1..Len(cards), j \in 1..Len(cards) :
          /\ i < j
          /\ cards' = [cards EXCEPT ![i] = cards[j], ![j] = cards[i]]
    /\ best_hand' = None
    /\ UNCHANGED <<first_hand, CardVars, GameVars, RunVars, formatters>>

NextEval == EvalFinalHand
NextPerm == EvalFinalHand \/ Reorder

SpecEval == InitEval /\ [][NextEval]_vars
SpecPerm == InitPerm /\ [][NextPerm]_vars

\* ------------------------------------------------------------------------
\* Card as a state machine
\* ------------------------------------------------------------------------

\* The plain rendering of each card: rank, then suit.
PlainRenderings == {emojiToStr[e] : e \in DOMAIN emojiToStr}

\* The tokens tried: both tables' keys, the plain renderings and two that are no card.
CardNames == DOMAIN strToEmoji \cup DOMAIN emojiToStr \cup PlainRenderings
               \cup {<<"1", "s">>, <<"s", "1", "0">>}

InitCard ==
    /\ name \in CardNames
    /\ card = None
    /\ EvalIdle
    /\ GameIdle
    /\ RunIdle /\ NoFormatters

\* Card(name)
CardInit ==
    /\ card = None
    /\ card' = Card(name)
    /\ UNCHANGED <<name, EvalVars, GameVars, RunVars, formatters>>

\* A caller builds a second Card from the plain rendering of the first.
CardFromRendering ==
    /\ card # None
    /\ card # InvalidCardException
    /\ name # card.card_str
    /\ name' = card.card_str
    /\ card' = None
    /\ UNCHANGED <<EvalVars, GameVars, RunVars, formatters>>

NextCard == CardInit \/ CardFromRendering

SpecCard == InitCard /\ [][NextCard]_vars

\* ------------------------------------------------------------------------
\* The logs the Game is built from
\* ------------------------------------------------------------------------

\* Two players that take seats, one with a space in the name, and one that
\* never does.
Ann == NameWithId(<<"A", "n", "n">>, "a1")
Bob == NameWithId(<<"B", " ", "o", "b">>, "b2")
Cat == NameWithId(<<"C", "a", "t">>, "c3")

\* A card as PokerNow writes it: the rank and the suit symbol.
Emoji(rank, suit) == EmojiRank(rank) \o <<SuitEmoji(suit)>>

PlayerLine(text, has, player, number) == LogLine(text, has, player, number, <<>>, <<>>)
CardsLine(text, has, player, number, tokens) == LogLine(text, has, player, number, tokens, <<>>)
StacksLine(text, stacks) == LogLine(text, {}, NoPlayer, 0, <<>>, stacks)
Stack(seat_number, player, stack_size) ==
    [seat_number |-> seat_number, player |-> player, stack_size |-> stack_size]

StartLine(number) == PlayerLine("-- starting hand ", {"Hold'em", "dealer:"}, Ann, number)
DeadButtonStartLine(number) == PlayerLine("-- starting hand ", {}, NoPlayer, number)
EndLine(number) == PlayerLine("-- ending hand ", {}, NoPlayer, number)
SeatsLine == StacksLine("Player stacks", <<Stack(3, Ann, 10), Stack(7, Bob, 20)>>)
LegacySeatsLine == StacksLine("Players stacks", <<Stack(0, Bob, 0), Stack(0, Ann, 0)>>)
SmallBlindLine == PlayerLine(" small blind of ", {}, Ann, 1)
MissingSmallBlindLine == PlayerLine(" small blind of ", {"missing "}, Bob, 1)
BigBlindLine == PlayerLine(" big blind of ", {}, Bob, 2)
StraddleLine == PlayerLine(" posts a straddle ", {" and go all in"}, Ann, 4)
AnteLine == PlayerLine(" posts an ante of ", {}, Ann, 1)
BombPotLine == PlayerLine("posts a bet of", {"bomb pot bet"}, Ann, 2)
BombPotCallLine == PlayerLine("\" calls", {"bomb pot bet"}, Bob, 2)
RaiseLine == PlayerLine("\" raises", {" and go all in"}, Ann, 4)
BetLine == PlayerLine("\" bets", {}, Bob, 2)
CallLine == PlayerLine("\" calls", {}, Bob, 4)
CheckLine == PlayerLine("\" checks", {}, Ann, 0)
FoldLine == PlayerLine("\" folds", {}, Bob, 0)
StrangerFoldLine == PlayerLine("\" folds", {}, Cat, 0)
UncalledLine == PlayerLine("Uncalled bet", {}, Ann, 2)
YourHandLine == CardsLine("Your hand", {}, NoPlayer, 0, <<Emoji("A", "s"), Emoji("K", "h")>>)
FlopLine == CardsLine("Flop:", {}, NoPlayer, 0, <<Emoji("2", "s"), Emoji("7", "d"), Emoji("K", "c")>>)
TurnLine == CardsLine("Turn:", {}, NoPlayer, 0, <<Emoji("9", "h")>>)
RiverLine == CardsLine("river:", {}, NoPlayer, 0, <<Emoji("T", "d")>>)
SecondFlopLine ==
    CardsLine("Flop (second run):", {}, NoPlayer, 0, <<Emoji("3", "s"), Emoji("8", "d"), Emoji("7", "c")>>)
SecondTurnLine == CardsLine("Turn (second run):", {}, NoPlayer, 0, <<Emoji("4", "h")>>)
SecondRiverLine == CardsLine("River (second run):", {}, NoPlayer, 0, <<Emoji("J", "d")>>)
ShowLine == CardsLine("\" shows a ", {}, Ann, 0, <<Emoji("A", "s"), Emoji("K", "h")>>)
BobShowLine == CardsLine("\" shows a ", {}, Bob, 0, <<Emoji("7", "s"), Emoji("7", "h")>>)
BadShowLine == CardsLine("\" shows a ", {}, Bob, 0, <<Emoji("7", "s"), <<"1", "s">>>>)
CollectLine == PlayerLine("\" collected ", {}, Ann, 6)
GainedLine == PlayerLine("\" gained ", {}, Bob, 3)
CollectWithLine == PlayerLine("\" collected ", {" with "}, Ann, 6)
SecondCollectLine == PlayerLine("\" collected ", {" with ", "second run"}, Bob, 3)
WinsLine ==
    CardsLine(" wins ", {" with ", "(hand: "}, Bob, 5, <<Emoji("K", "s"), Emoji("K", "d")>>)
RunItTwiceLine == PlayerLine("All players in hand choose to run it twice.", {}, NoPlayer, 0)
JoinedLine == PlayerLine("joined", {}, Cat, 0)
ChatLine == PlayerLine("chat", {}, NoPlayer, 0)

\* The bomb-pot bet posted by the player in the second seat
BobBombPotLine == PlayerLine("posts a bet of", {"bomb pot bet"}, Bob, 2)

\* The lines of a hand with five spades A K 4 3 2 against a straight flush
LowFlopLine == CardsLine("Flop:", {}, NoPlayer, 0, <<Emoji("4", "s"), Emoji("3", "s"), Emoji("2", "s")>>)
SuitedShowLine == CardsLine("\" shows a ", {}, Ann, 0, <<Emoji("A", "s"), Emoji("K", "s")>>)
BobSuitedShowLine == CardsLine("\" shows a ", {}, Bob, 0, <<Emoji("6", "s"), Emoji("5", "s")>>)
BobCollectWithLine == PlayerLine("\" collected ", {" with "}, Bob, 6)

\* The lines a log is put together from
Lines ==
    {StartLine(1), DeadButtonStartLine(2), EndLine(1), SeatsLine, LegacySeatsLine,
     SmallBlindLine, MissingSmallBlindLine, BigBlindLine, StraddleLine, AnteLine,
     BombPotLine, BombPotCallLine, RaiseLine, BetLine, CallLine, CheckLine, FoldLine,
     StrangerFoldLine, UncalledLine, YourHandLine, FlopLine, TurnLine, RiverLine,
     SecondFlopLine, SecondTurnLine, SecondRiverLine, ShowLine, BobShowLine, BadShowLine,
     CollectLine, GainedLine, CollectWithLine, SecondCollectLine, WinsLine,
     RunItTwiceLine, JoinedLine, ChatLine}

\* ------------------------------------------------------------------------
\* game.py: Game.__init__, one action for each branch of its loop
\* ------------------------------------------------------------------------

\* Game(..., currency="USD", timezone="ET"): the defaults of game.py 40
currency == "USD"
currency_symbol == "$"
timezone == "ET"

\* How many times the same rows are handed to Game(...).
MaxGames == 2
\* How many times format_as_pokerstars_log is called in all.
MaxOutputs == 3

\* game.py 50-70: the fields and locals as __init__ sets them before its
\* loop, preprocess_log having rewritten the caller's rows in place.  It is
\* called on fresh rows, and again on the same rows once they were formatted.
GameInit ==
    /\ \/ game = "none"
       \/ game = "built" /\ games < MaxGames /\ outputs # <<>>
    /\ games' = games + 1
    /\ game' = "constructing"
    /\ log' = preprocess_log(log)
    /\ row' = 0
    /\ hands' = <<Hand>>
    /\ current_hand' = 1
    /\ current_hand_state' = "before Flop"
    /\ current_hand_street_max_bet' = 0
    /\ prev_action_dict' = <<>>
    /\ street_action_dict' = 0
    /\ hand_list' = <<>>
    /\ seen_players' = {}
    /\ UNCHANGED <<original_file_path, rng, outputs, CardVars, EvalVars, RunVars, formatters>>

\* The loop has a row to process, and the line in it.
Parsing == game = "constructing" /\ row < Len(log)
Line == log[row + 1].line

\* An exception leaves __init__: no Game comes back, and what the loop had
\* built is dropped with it.
Fail(error) ==
    /\ game' = error.exception
    /\ UNCHANGED <<log, original_file_path, games, seen_players, rng, outputs, LoopVars,
                   CardVars, EvalVars, RunVars, formatters>>

\* The end of one pass of the loop: what the branch left in the locals and
\* in the hands, then game.py 502-503, the line as the branch rewrote it
\* being appended to the raw strings of the current hand.
LoopBody(line, heap, cur, dict, list, state, max_bet, prev) ==
    /\ hands' = [heap EXCEPT ![cur].raw_strings = Append(@, line)]
    /\ current_hand' = cur
    /\ street_action_dict' = dict
    /\ hand_list' = list
    /\ current_hand_state' = state
    /\ current_hand_street_max_bet' = max_bet
    /\ prev_action_dict' = prev
    /\ row' = row + 1
    /\ UNCHANGED <<log, original_file_path, game, games, seen_players, rng, outputs,
                   CardVars, EvalVars, RunVars, formatters>>

\* A pass that changes only the current hand and the three scratch values.
HandBody(line, self, state, max_bet, prev) ==
    LoopBody(line, [hands EXCEPT ![current_hand] = self], current_hand, street_action_dict,
             hand_list, state, max_bet, prev)

\* street_action_dict[current_hand_state].append(action), in the hand self
AppendAction(self, state, action) ==
    [self EXCEPT ![street_action_lists[state]] = Append(@, action)]

\* p_seat = ...; if p_seat: p_seat.seat_did_bet = True
MarkDidBet(self, player_name_with_id) ==
    LET p_seat == get_seat_by_player_name_with_id(self, player_name_with_id)
    IN IF p_seat = 0 THEN self ELSE [self EXCEPT !.seats[p_seat].seat_did_bet = TRUE]

\* line.replace(" and go all in", "") and line.replace(" and all in", "")
WithoutAllIn(line) == Remove(Remove(line, " and go all in"), " and all in")

StartingHandCarrying ==
    /\ Parsing /\ Branch(Line) = "starting hand"
    /\ LET line == Line
           dealer == IF In("dealer:", line)
                     THEN Player(line.player.name, line.player, line.player.id)
                     ELSE None
           new == [Hand EXCEPT
                     !.hand_type = IF In("Hold'em", line) THEN "Hold'em No Limit" ELSE "Omaha Pot Limit",
                     !.dealer = dealer,
                     !.hand_start_datetime = <<log[row + 1].at>>,
                     !.hand_number = line.number]
       IN LoopBody(line, Append(hands, new), Len(hands) + 1, Len(hands) + 1, hand_list,
                   current_hand_state, current_hand_street_max_bet, prev_action_dict)

\* game.py 76-102
StartingHand ==
    /\ Parsing /\ Branch(Line) = "starting hand"
    /\ LET line == Line
           dealer == IF In("dealer:", line)
                     THEN Player(line.player.name, line.player, line.player.id)
                     ELSE None
           new == [Hand EXCEPT
                     !.hand_type = IF In("Hold'em", line) THEN "Hold'em No Limit" ELSE "Omaha Pot Limit",
                     !.dealer = dealer,
                     !.hand_start_datetime = <<log[row + 1].at>>,
                     !.hand_number = line.number]
       IN LoopBody(line, Append(hands, new), Len(hands) + 1, Len(hands) + 1, hand_list,
                   "before Flop", 0, <<>>)

\* The end marker as it would be handled if the append stood inside the test
\* of the dealer: a hand with a dead button would never be listed.
EndingHandInsideIf ==
    /\ Parsing /\ Branch(Line) = "ending hand"
    /\ LET self == hands[current_hand]
           seat == IF self.dealer = None THEN 0
                   ELSE get_seat_by_player_name_with_id(self, self.dealer.player_name_with_id)
       IN IF self.dealer # None /\ seat = 0 THEN Fail(AttributeError)
          ELSE IF self.dealer = None
          THEN LoopBody(Line, hands, current_hand, street_action_dict, hand_list,
                        current_hand_state, current_hand_street_max_bet, prev_action_dict)
          ELSE LoopBody(Line,
                        [hands EXCEPT ![current_hand].seats[seat].seat_desc = @ \o " (button)"],
                        current_hand, street_action_dict, Append(hand_list, current_hand),
                        current_hand_state, current_hand_street_max_bet, prev_action_dict)

EndingHandCopying ==
    /\ Parsing /\ Branch(Line) = "ending hand"
    /\ LET self == hands[current_hand]
           seat == IF self.dealer = None THEN 0
                   ELSE get_seat_by_player_name_with_id(self, self.dealer.player_name_with_id)
       IN IF self.dealer # None /\ seat = 0 THEN Fail(AttributeError)
          ELSE LoopBody(Line,
                        Append(IF self.dealer = None THEN hands
                               ELSE [hands EXCEPT ![current_hand].seats[seat].seat_desc = @ \o " (button)"],
                               self),
                        current_hand, street_action_dict, Append(hand_list, Len(hands) + 1),
                        current_hand_state, current_hand_street_max_bet, prev_action_dict)

\* game.py 104-108
EndingHand ==
    /\ Parsing /\ Branch(Line) = "ending hand"
    /\ LET self == hands[current_hand]
           seat == IF self.dealer = None THEN 0
                   ELSE get_seat_by_player_name_with_id(self, self.dealer.player_name_with_id)
       IN IF self.dealer # None /\ seat = 0 THEN Fail(AttributeError)
          ELSE LoopBody(Line,
                        IF self.dealer = None THEN hands
                        ELSE [hands EXCEPT ![current_hand].seats[seat].seat_desc = @ \o " (button)"],
                        current_hand, street_action_dict, Append(hand_list, current_hand),
                        current_hand_state, current_hand_street_max_bet, prev_action_dict)

\* next((seat for seat in self.seats if seat.seat_number == seat_number), None)
SeatNumbered(self, seat_number) ==
    FirstWhere({i \in DOMAIN self.seats : self.seats[i].seat_number = seat_number})

\* game.py 110-165
BombPot ==
    /\ Parsing /\ Branch(Line) = "bomb pot"
    /\ LET line == Line
           self == hands[current_hand]
           p_obj == get_player_by_player_name_with_id(self, line.player)
           bet_amount == line.number
           num_seats == Len(self.seats)
           available_seats == {i \in 1..num_seats : self.seats[i].stack_size > 0}
           utg_seat_number == self.seats[Min(available_seats)].seat_number
           button_seat == IF available_seats # {}
                          THEN SeatNumbered(self, (utg_seat_number - 2) % num_seats)
                          ELSE SeatNumbered(self, 1)
           small_blind_seat == IF available_seats # {}
                               THEN SeatNumbered(self, (utg_seat_number - 1) % num_seats)
                               ELSE 0
           big_blind_seat == IF available_seats # {} THEN SeatNumbered(self, utg_seat_number) ELSE 0
           PlayerAt(seat) == self.seats[seat].seat_player
       IN IF get_seat_by_player_name_with_id(self, line.player) = 0 THEN Fail(AttributeError)
          ELSE HandBody(line,
                 [self EXCEPT
                    !.is_bomb_pot = TRUE,
                    !.pre_flop_actions = Append(@, Action(p_obj, "bet", bet_amount, 0, "")),
                    !.dealer = IF button_seat # 0 THEN self.players[PlayerAt(button_seat)] ELSE None,
                    !.small_blind_seat = small_blind_seat,
                    !.small_blind_player = IF small_blind_seat # 0 THEN PlayerAt(small_blind_seat) ELSE 0,
                    !.small_blind_amount = 0,
                    !.big_blind_seats = IF big_blind_seat # 0 THEN <<big_blind_seat>> ELSE <<>>,
                    !.big_blind_players = IF big_blind_seat # 0 THEN <<PlayerAt(big_blind_seat)>> ELSE <<>>,
                    !.big_blind_amount = 0],
                 current_hand_state, bet_amount, Put(prev_action_dict, line.player, bet_amount))

RaisesOverOwnCommit ==
    /\ Parsing /\ Branch(Line) = "raises"
    /\ LET line == Replace(WithoutAllIn(Line), "with ", "to ")
           self == hands[current_hand]
           p_obj == get_player_by_player_name_with_id(self, line.player)
           raise_amount == line.number
           difference == raise_amount - Get(prev_action_dict, line.player)
       IN IF street_action_dict = 0 THEN Fail(KeyError)
          ELSE HandBody(line,
                 MarkDidBet(AppendAction(self, current_hand_state,
                                         Action(p_obj, "raise", raise_amount, difference, "")),
                            line.player),
                 current_hand_state, raise_amount, Put(prev_action_dict, line.player, raise_amount))

\* game.py 167-183
Raises ==
    /\ Parsing /\ Branch(Line) = "raises"
    /\ LET line == Replace(WithoutAllIn(Line), "with ", "to ")
           self == hands[current_hand]
           p_obj == get_player_by_player_name_with_id(self, line.player)
           raise_amount == line.number
           difference == raise_amount - current_hand_street_max_bet
       IN IF street_action_dict = 0 THEN Fail(KeyError)
          ELSE HandBody(line,
                 MarkDidBet(AppendAction(self, current_hand_state,
                                         Action(p_obj, "raise", raise_amount, difference, "")),
                            line.player),
                 current_hand_state, raise_amount, Put(prev_action_dict, line.player, raise_amount))

\* game.py 185-199
Bets ==
    /\ Parsing /\ Branch(Line) = "bets"
    /\ LET line == Remove(WithoutAllIn(Line), " with")
           self == hands[current_hand]
           p_obj == get_player_by_player_name_with_id(self, line.player)
           bet_amount == line.number
       IN IF street_action_dict = 0 THEN Fail(KeyError)
          ELSE HandBody(line,
                 MarkDidBet(AppendAction(self, current_hand_state,
                                         Action(p_obj, "bet", bet_amount, 0, "")),
                            line.player),
                 current_hand_state, bet_amount, Put(prev_action_dict, line.player, bet_amount))

CallsInFull ==
    /\ Parsing /\ Branch(Line) = "calls"
    /\ LET line == Remove(WithoutAllIn(Line), " with")
           self == hands[current_hand]
           p_obj == get_player_by_player_name_with_id(self, line.player)
           call_amount == line.number
       IN IF street_action_dict = 0 THEN Fail(KeyError)
          ELSE HandBody(line,
                 MarkDidBet(AppendAction(self, current_hand_state,
                                         Action(p_obj, "call", call_amount, 0, "")),
                            line.player),
                 current_hand_state, current_hand_street_max_bet,
                 Put(prev_action_dict, line.player, call_amount))

\* game.py 201-222
Calls ==
    /\ Parsing /\ Branch(Line) = "calls"
    /\ LET line == Remove(WithoutAllIn(Line), " with")
           self == hands[current_hand]
           p_obj == get_player_by_player_name_with_id(self, line.player)
           call_amount == line.number
           difference == call_amount - Get(prev_action_dict, line.player)
       IN IF street_action_dict = 0 THEN Fail(KeyError)
          ELSE HandBody(line,
                 MarkDidBet(AppendAction(self, current_hand_state,
                                         Action(p_obj, "call", difference, 0, "")),
                            line.player),
                 current_hand_state, current_hand_street_max_bet,
                 Put(prev_action_dict, line.player, call_amount))

\* game.py 223-232
Checks ==
    /\ Parsing /\ Branch(Line) = "checks"
    /\ LET line == Line
           self == hands[current_hand]
           p_obj == get_player_by_player_name_with_id(self, line.player)
       IN IF street_action_dict = 0 THEN Fail(KeyError)
          ELSE HandBody(line,
                 MarkDidBet(AppendAction(self, current_hand_state,
                                         Action(p_obj, "check", 0, 0, "")),
                            line.player),
                 current_hand_state, current_hand_street_max_bet, prev_action_dict)

\* game.py 234-246
UncalledBet ==
    /\ Parsing /\ Branch(Line) = "uncalled bet"
    /\ LET line == Line
           self == hands[current_hand]
           p_obj == get_player_by_player_name_with_id(self, line.player)
           uncalled_bet_amount == line.number
       IN IF street_action_dict = 0 THEN Fail(KeyError)
          ELSE HandBody(line,
                 MarkDidBet(AppendAction([self EXCEPT !.uncalledBetSize = uncalled_bet_amount],
                                         current_hand_state,
                                         Action(p_obj, "uncalled bet", uncalled_bet_amount, 0, "")),
                            line.player),
                 current_hand_state, current_hand_street_max_bet - uncalled_bet_amount,
                 prev_action_dict)

FoldsUnmarked ==
    /\ Parsing /\ Branch(Line) = "folds"
    /\ LET line == Line
           self == hands[current_hand]
           p_seat == get_seat_by_player_name_with_id(self, line.player)
           p_obj == get_player_by_player_name_with_id(self, line.player)
           seat_summary == <<"folded", current_hand_state>>
       IN IF p_seat = 0 THEN Fail(AttributeError)
          ELSE IF street_action_dict = 0 THEN Fail(KeyError)
          ELSE HandBody(line,
                 AppendAction([self EXCEPT !.seats[p_seat].seat_summary = seat_summary],
                              current_hand_state, Action(p_obj, "fold", 0, 0, "")),
                 current_hand_state, current_hand_street_max_bet, prev_action_dict)

\* game.py 248-256
Folds ==
    /\ Parsing /\ Branch(Line) = "folds"
    /\ LET line == Line
           self == hands[current_hand]
           p_seat == get_seat_by_player_name_with_id(self, line.player)
           p_obj == get_player_by_player_name_with_id(self, line.player)
           seat_summary == <<"folded", current_hand_state>>
                             \o (IF self.seats[p_seat].seat_did_bet THEN <<>> ELSE <<"(didn't bet)">>)
       IN IF p_seat = 0 THEN Fail(AttributeError)
          ELSE IF street_action_dict = 0 THEN Fail(KeyError)
          ELSE HandBody(line,
                 AppendAction([self EXCEPT !.seats[p_seat].seat_summary = seat_summary],
                              current_hand_state, Action(p_obj, "fold", 0, 0, "")),
                 current_hand_state, current_hand_street_max_bet, prev_action_dict)

\* game.py 258-275
BigBlind ==
    /\ Parsing /\ Branch(Line) = "big blind"
    /\ LET line == Remove(Remove(Line, " and go all in"), "missed ")
           self == hands[current_hand]
           big_blind_amount == line.number
           big_blind_seat == get_seat_by_player_name_with_id(self, line.player)
       IN IF big_blind_seat = 0 THEN Fail(AttributeError)
          ELSE HandBody(line,
                 [self EXCEPT
                    !.seats[big_blind_seat].seat_did_bet = TRUE,
                    !.seats[big_blind_seat].seat_desc = " (big blind)",
                    !.big_blind_seats = Append(@, big_blind_seat),
                    !.big_blind_amount = big_blind_amount,
                    !.big_blind_players =
                        Append(@, get_player_by_player_name_with_id(self, line.player))],
                 current_hand_state,
                 IF big_blind_amount > current_hand_street_max_bet
                    THEN big_blind_amount ELSE current_hand_street_max_bet,
                 Put(prev_action_dict, line.player, big_blind_amount))

\* game.py 277-291
Straddle ==
    /\ Parsing /\ Branch(Line) = "straddle"
    /\ LET line == Remove(Line, " and go all in")
           self == hands[current_hand]
           straddle_amount == line.number
           straddle_seat == get_seat_by_player_name_with_id(self, line.player)
       IN IF straddle_seat = 0 THEN Fail(AttributeError)
          ELSE HandBody(line,
                 [self EXCEPT
                    !.seats[straddle_seat].seat_did_bet = TRUE,
                    !.straddle_player = get_player_by_player_name_with_id(self, line.player),
                    !.straddle_amount = straddle_amount,
                    !.straddle_seat = straddle_seat],
                 current_hand_state,
                 IF straddle_amount > current_hand_street_max_bet
                    THEN straddle_amount ELSE current_hand_street_max_bet,
                 Put(prev_action_dict, line.player, straddle_amount))

SmallBlindMissingCommitted ==
    /\ Parsing /\ Branch(Line) = "small blind"
    /\ LET missing == In("missing ", Line)
           line == Remove(Remove(Line, " and go all in"), "missing ")
           self == hands[current_hand]
           small_blind_amount == line.number
           small_blind_seat == get_seat_by_player_name_with_id(self, line.player)
           p_obj == get_player_by_player_name_with_id(self, line.player)
           marked == [self EXCEPT
                        !.seats[small_blind_seat].seat_did_bet = TRUE,
                        !.seats[small_blind_seat].seat_desc = " (small blind)"]
           max_bet == IF small_blind_amount > current_hand_street_max_bet
                      THEN small_blind_amount ELSE current_hand_street_max_bet
       IN IF small_blind_seat = 0 THEN Fail(AttributeError)
          ELSE IF missing
          THEN HandBody(line,
                 [marked EXCEPT !.missing_small_blinds = Append(@, p_obj)],
                 current_hand_state, max_bet,
                 Put(prev_action_dict, line.player, small_blind_amount))
          ELSE HandBody(line,
                 [marked EXCEPT
                    !.small_blind_seat = small_blind_seat,
                    !.small_blind_amount = small_blind_amount,
                    !.small_blind_player = p_obj],
                 current_hand_state, max_bet,
                 Put(prev_action_dict, line.player, small_blind_amount))

\* game.py 293-326: the missing small blind (295-309) and the regular one
SmallBlind ==
    /\ Parsing /\ Branch(Line) = "small blind"
    /\ LET missing == In("missing ", Line)
           line == Remove(Remove(Line, " and go all in"), "missing ")
           self == hands[current_hand]
           small_blind_amount == line.number
           small_blind_seat == get_seat_by_player_name_with_id(self, line.player)
           p_obj == get_player_by_player_name_with_id(self, line.player)
           marked == [self EXCEPT
                        !.seats[small_blind_seat].seat_did_bet = TRUE,
                        !.seats[small_blind_seat].seat_desc = " (small blind)"]
           max_bet == IF small_blind_amount > current_hand_street_max_bet
                      THEN small_blind_amount ELSE current_hand_street_max_bet
       IN IF small_blind_seat = 0 THEN Fail(AttributeError)
          ELSE IF missing
          THEN HandBody(line,
                 [marked EXCEPT !.missing_small_blinds = Append(@, p_obj)],
                 current_hand_state, max_bet, prev_action_dict)
          ELSE HandBody(line,
                 [marked EXCEPT
                    !.small_blind_seat = small_blind_seat,
                    !.small_blind_amount = small_blind_amount,
                    !.small_blind_player = p_obj],
                 current_hand_state, max_bet,
                 Put(prev_action_dict, line.player, small_blind_amount))

\* The body of the two loops over the entries of a stack line: a Player and
\* a Seat appended for each entry, the k-th seat numbered seat_numbers[k].
SeatPlayers(self, stacks, seat_numbers) ==
    [self EXCEPT
       !.players = @ \o [k \in 1..Len(stacks) |->
                           Player(stacks[k].player.name, stacks[k].player, stacks[k].player.id)],
       !.seats = @ \o [k \in 1..Len(stacks) |->
                         Seat(Len(self.players) + k, seat_numbers[k], stacks[k].stack_size)]]

\* game.py 328-343: the legacy line; the seats are numbered as they come
PlayersStacks ==
    /\ Parsing /\ Branch(Line) = "players stacks"
    /\ LET seat_numbers == [k \in 1..Len(Line.stacks) |-> k]
       IN HandBody(Line, SeatPlayers(hands[current_hand], Line.stacks, seat_numbers),
                   current_hand_state, current_hand_street_max_bet, prev_action_dict)

\* game.py 345-358: the seats carry the numbers written in the line
PlayerStacks ==
    /\ Parsing /\ Branch(Line) = "player stacks"
    /\ LET seat_numbers == [k \in 1..Len(Line.stacks) |-> Line.stacks[k].seat_number]
       IN HandBody(Line, SeatPlayers(hands[current_hand], Line.stacks, seat_numbers),
                   current_hand_state, current_hand_street_max_bet, prev_action_dict)

\* [Card(x) for x in tokens], or the exception of the first token that is no card
Cards(tokens) ==
    IF \E i \in 1..Len(tokens) : Card(tokens[i]) = InvalidCardException
    THEN InvalidCardException
    ELSE [list |-> [i \in 1..Len(tokens) |-> Card(tokens[i])]]

\* game.py 359-361
YourHand ==
    /\ Parsing /\ Branch(Line) = "your hand"
    /\ LET hole_cards == Cards(Line.cards)
       IN IF Raised(hole_cards) THEN Fail(hole_cards)
          ELSE HandBody(Line, [hands[current_hand] EXCEPT !.hole_cards = hole_cards.list],
                        current_hand_state, current_hand_street_max_bet, prev_action_dict)

\* The order of the street states within a hand
StreetStates ==
    <<"before Flop", "on the Flop", "on the Turn", "on the River", "at Showdown",
      "at second Showdown">>
StreetOrder(state) == CHOOSE i \in 1..Len(StreetStates) : StreetStates[i] = state

\* A reveal branch as it would be if it only ever advanced the street state.
RevealAdvancing(cards_attribute, board_attribute, state) ==
    LET street_cards == Cards(Line.cards)
        kept == IF cards_attribute \in {"flop_cards", "run_it_twice_flop_cards"}
                THEN street_cards.list ELSE street_cards.list[1]
    IN IF Raised(street_cards) THEN Fail(street_cards)
       ELSE HandBody(Line,
              [hands[current_hand] EXCEPT
                 ![cards_attribute] = kept,
                 ![board_attribute] = @ \o street_cards.list],
              IF StreetOrder(state) > StreetOrder(current_hand_state)
              THEN state ELSE current_hand_state,
              0, <<>>)

RevealKeepingBets(cards_attribute, board_attribute, state) ==
    LET street_cards == Cards(Line.cards)
        kept == IF cards_attribute \in {"flop_cards", "run_it_twice_flop_cards"}
                THEN street_cards.list ELSE street_cards.list[1]
    IN IF Raised(street_cards) THEN Fail(street_cards)
       ELSE HandBody(Line,
              [hands[current_hand] EXCEPT
                 ![cards_attribute] = kept,
                 ![board_attribute] = @ \o street_cards.list],
              state, current_hand_street_max_bet, prev_action_dict)

\* The six reveal branches, game.py 362-403: the cards go to the attribute
\* of the street and onto the board of the run; the street state is set, the
\* running maximum bet and the last-commit map are reset.
Reveal(cards_attribute, board_attribute, state) ==
    LET street_cards == Cards(Line.cards)
        kept == IF cards_attribute \in {"flop_cards", "run_it_twice_flop_cards"}
                THEN street_cards.list ELSE street_cards.list[1]
    IN IF Raised(street_cards) THEN Fail(street_cards)
       ELSE HandBody(Line,
              [hands[current_hand] EXCEPT
                 ![cards_attribute] = kept,
                 ![board_attribute] = @ \o street_cards.list],
              state, 0, <<>>)

\* game.py 362-368
Flop == Parsing /\ Branch(Line) = "flop" /\ Reveal("flop_cards", "board", "on the Flop")
\* game.py 369-375
Turn == Parsing /\ Branch(Line) = "turn" /\ Reveal("turn_card", "board", "on the Turn")
\* game.py 376-382
River == Parsing /\ Branch(Line) = "river" /\ Reveal("river_card", "board", "on the River")
\* game.py 383-389
SecondFlop ==
    /\ Parsing /\ Branch(Line) = "second flop"
    /\ Reveal("run_it_twice_flop_cards", "run_it_twice_board", "on the Flop")
\* game.py 390-396
SecondTurn ==
    /\ Parsing /\ Branch(Line) = "second turn"
    /\ Reveal("run_it_twice_turn_card", "run_it_twice_board", "on the Turn")
\* game.py 397-403
SecondRiver ==
    /\ Parsing /\ Branch(Line) = "second river"
    /\ Reveal("run_it_twice_river_card", "run_it_twice_board", "on the River")

\* f"[{' '.join([c.card_str for c in card_objects])}]"
Bracketed(card_objects) == "[" \o CardsStr(card_objects) \o "]"

\* game.py 404-414
Shows ==
    /\ Parsing /\ Branch(Line) = "shows"
    /\ LET line == Line
           self == hands[current_hand]
           p_seat == get_seat_by_player_name_with_id(self, line.player)
           p_obj == get_player_by_player_name_with_id(self, line.player)
           card_objects == Cards(line.cards)
           shown == Bracketed(card_objects.list)
       IN IF Raised(card_objects) THEN Fail(card_objects)
          ELSE IF p_seat = 0 THEN Fail(AttributeError)
          ELSE IF street_action_dict = 0 THEN Fail(KeyError)
          ELSE HandBody(line,
                 AppendAction([self EXCEPT
                                 !.seats[p_seat].seat_hole_cards = shown,
                                 !.seats[p_seat].seat_hole_cards_obj = card_objects.list],
                              current_hand_state, Action(p_obj, "show", 0, 0, shown)),
                 current_hand_state, current_hand_street_max_bet, prev_action_dict)

CollectedBeforeSwitch ==
    /\ Parsing /\ Branch(Line) = "collected"
    /\ LET line == Replace(Line, "\" gained ", "\" collected ")
           self == hands[current_hand]
           second_run == In("second run", line)
           state == IF second_run THEN "at second Showdown" ELSE "at Showdown"
           collected_amount == line.number
           p_seat == get_seat_by_player_name_with_id(self, line.player)
           p_obj == get_player_by_player_name_with_id(self, line.player)
           paid == AppendAction(
                     [self EXCEPT
                        !.total_pot = @ + collected_amount,
                        !.seats[p_seat].collected_amount =
                            IF second_run THEN @ ELSE @ + collected_amount,
                        !.seats[p_seat].collected_amount_second_run =
                            IF second_run THEN @ + collected_amount ELSE @],
                     current_hand_state, Action(p_obj, "collect", collected_amount, 0, ""))
           hole_card_objects == IF In("(hand: ", line) THEN Cards(line.cards) ELSE None
           known == IF hole_card_objects = None \/ Raised(hole_card_objects) THEN paid
                    ELSE [paid EXCEPT
                            !.seats[p_seat].seat_hole_cards = Bracketed(hole_card_objects.list),
                            !.seats[p_seat].seat_hole_cards_obj = hole_card_objects.list]
           seat == known.seats[p_seat]
           winning_hand == eval_final_hand(seat.seat_hole_cards_obj
                               \o (IF second_run THEN self.run_it_twice_board ELSE self.board))
       IN IF p_seat = 0 THEN Fail(AttributeError)
          ELSE IF street_action_dict = 0 THEN Fail(KeyError)
          ELSE IF ~In(" with ", line)
          THEN HandBody(line,
                 [paid EXCEPT !.seats[p_seat].seat_summary =
                    <<"collected", "(" \o Money(currency_symbol, paid.seats[p_seat].collected_amount) \o ")">>],
                 state, current_hand_street_max_bet, prev_action_dict)
          ELSE IF Raised(hole_card_objects) THEN Fail(hole_card_objects)
          ELSE IF Raised(winning_hand) THEN Fail(winning_hand)
          ELSE IF second_run
          THEN HandBody(line,
                 [known EXCEPT !.seats[p_seat].seat_run_it_twice_summary =
                    <<",", "and", "won",
                      "(" \o Money(currency_symbol, seat.collected_amount_second_run) \o ")",
                      "with">> \o winning_hand.desc],
                 state, current_hand_street_max_bet, prev_action_dict)
          ELSE HandBody(line,
                 [known EXCEPT !.seats[p_seat].seat_summary =
                    <<"showed", seat.seat_hole_cards, "and", "won",
                      "(" \o Money(currency_symbol, seat.collected_amount) \o ")",
                      "with">> \o winning_hand.desc],
                 state, current_hand_street_max_bet, prev_action_dict)

CollectedLessMissingBlinds ==
    /\ Parsing /\ Branch(Line) = "collected"
    /\ LET line == Replace(Line, "\" gained ", "\" collected ")
           self == hands[current_hand]
           second_run == In("second run", line)
           state == IF second_run THEN "at second Showdown" ELSE "at Showdown"
           collected_amount == line.number
                                  - self.small_blind_amount * Len(self.missing_small_blinds)
           p_seat == get_seat_by_player_name_with_id(self, line.player)
           p_obj == get_player_by_player_name_with_id(self, line.player)
           paid == AppendAction(
                     [self EXCEPT
                        !.total_pot = @ + collected_amount,
                        !.seats[p_seat].collected_amount =
                            IF second_run THEN @ ELSE @ + collected_amount,
                        !.seats[p_seat].collected_amount_second_run =
                            IF second_run THEN @ + collected_amount ELSE @],
                     state, Action(p_obj, "collect", collected_amount, 0, ""))
           hole_card_objects == IF In("(hand: ", line) THEN Cards(line.cards) ELSE None
           known == IF hole_card_objects = None \/ Raised(hole_card_objects) THEN paid
                    ELSE [paid EXCEPT
                            !.seats[p_seat].seat_hole_cards = Bracketed(hole_card_objects.list),
                            !.seats[p_seat].seat_hole_cards_obj = hole_card_objects.list]
           seat == known.seats[p_seat]
           winning_hand == eval_final_hand(seat.seat_hole_cards_obj
                               \o (IF second_run THEN self.run_it_twice_board ELSE self.board))
       IN IF p_seat = 0 THEN Fail(AttributeError)
          ELSE IF street_action_dict = 0 THEN Fail(KeyError)
          ELSE IF ~In(" with ", line)
          THEN HandBody(line,
                 [paid EXCEPT !.seats[p_seat].seat_summary =
                    <<"collected", "(" \o Money(currency_symbol, paid.seats[p_seat].collected_amount) \o ")">>],
                 state, current_hand_street_max_bet, prev_action_dict)
          ELSE IF Raised(hole_card_objects) THEN Fail(hole_card_objects)
          ELSE IF Raised(winning_hand) THEN Fail(winning_hand)
          ELSE IF second_run
          THEN HandBody(line,
                 [known EXCEPT !.seats[p_seat].seat_run_it_twice_summary =
                    <<",", "and", "won",
                      "(" \o Money(currency_symbol, seat.collected_amount_second_run) \o ")",
                      "with">> \o winning_hand.desc],
                 state, current_hand_street_max_bet, prev_action_dict)
          ELSE HandBody(line,
                 [known EXCEPT !.seats[p_seat].seat_summary =
                    <<"showed", seat.seat_hole_cards, "and", "won",
                      "(" \o Money(currency_symbol, seat.collected_amount) \o ")",
                      "with">> \o winning_hand.desc],
                 state, current_hand_street_max_bet, prev_action_dict)

\* game.py 416-480
Collected ==
    /\ Parsing /\ Branch(Line) = "collected"
    /\ LET line == Replace(Line, "\" gained ", "\" collected ")
           self == hands[current_hand]
           second_run == In("second run", line)
           state == IF second_run THEN "at second Showdown" ELSE "at Showdown"
           collected_amount == line.number
           p_seat == get_seat_by_player_name_with_id(self, line.player)
           p_obj == get_player_by_player_name_with_id(self, line.player)
           paid == AppendAction(
                     [self EXCEPT
                        !.total_pot = @ + collected_amount,
                        !.seats[p_seat].collected_amount =
                            IF second_run THEN @ ELSE @ + collected_amount,
                        !.seats[p_seat].collected_amount_second_run =
                            IF second_run THEN @ + collected_amount ELSE @],
                     state, Action(p_obj, "collect", collected_amount, 0, ""))
           hole_card_objects == IF In("(hand: ", line) THEN Cards(line.cards) ELSE None
           known == IF hole_card_objects = None \/ Raised(hole_card_objects) THEN paid
                    ELSE [paid EXCEPT
                            !.seats[p_seat].seat_hole_cards = Bracketed(hole_card_objects.list),
                            !.seats[p_seat].seat_hole_cards_obj = hole_card_objects.list]
           seat == known.seats[p_seat]
           winning_hand == eval_final_hand(seat.seat_hole_cards_obj
                               \o (IF second_run THEN self.run_it_twice_board ELSE self.board))
       IN IF p_seat = 0 THEN Fail(AttributeError)
          ELSE IF street_action_dict = 0 THEN Fail(KeyError)
          ELSE IF ~In(" with ", line)
          THEN HandBody(line,
                 [paid EXCEPT !.seats[p_seat].seat_summary =
                    <<"collected", "(" \o Money(currency_symbol, paid.seats[p_seat].collected_amount) \o ")">>],
                 state, current_hand_street_max_bet, prev_action_dict)
          ELSE IF Raised(hole_card_objects) THEN Fail(hole_card_objects)
          ELSE IF Raised(winning_hand) THEN Fail(winning_hand)
          ELSE IF second_run
          THEN HandBody(line,
                 [known EXCEPT !.seats[p_seat].seat_run_it_twice_summary =
                    <<",", "and", "won",
                      "(" \o Money(currency_symbol, seat.collected_amount_second_run) \o ")",
                      "with">> \o winning_hand.desc],
                 state, current_hand_street_max_bet, prev_action_dict)
          ELSE HandBody(line,
                 [known EXCEPT !.seats[p_seat].seat_summary =
                    <<"showed", seat.seat_hole_cards, "and", "won",
                      "(" \o Money(currency_symbol, seat.collected_amount) \o ")",
                      "with">> \o winning_hand.desc],
                 state, current_hand_street_max_bet, prev_action_dict)

RunItTwiceFromEmpty ==
    /\ Parsing /\ Branch(Line) = "run it twice"
    /\ LET self == hands[current_hand]
       IN HandBody(Line,
            [self EXCEPT
               !.run_it_twice = TRUE,
               !.run_it_twice_from_street = current_hand_state,
               !.run_it_twice_board = <<>>],
            current_hand_state, current_hand_street_max_bet, prev_action_dict)

\* game.py 482-485
RunItTwice ==
    /\ Parsing /\ Branch(Line) = "run it twice"
    /\ LET self == hands[current_hand]
       IN HandBody(Line,
            [self EXCEPT
               !.run_it_twice = TRUE,
               !.run_it_twice_from_street = current_hand_state,
               !.run_it_twice_board = self.board],
            current_hand_state, current_hand_street_max_bet, prev_action_dict)

\* game.py 486-490
Ante ==
    /\ Parsing /\ Branch(Line) = "ante"
    /\ LET self == hands[current_hand]
           p_obj == get_player_by_player_name_with_id(self, Line.player)
       IN HandBody(Line,
            [self EXCEPT !.antes = Append(@, [player |-> p_obj, amount |-> Line.number])],
            current_hand_state, current_hand_street_max_bet, prev_action_dict)

\* A slip: a line the parser does not know ends the parse.
NotConsideredAborting ==
    /\ Parsing /\ Branch(Line) = "not considered"
    /\ Fail(PNLogParsingException)

\* game.py 491-500: a line of the table's housekeeping, or one that is only
\* reported as not considered
NotConsidered ==
    /\ Parsing /\ Branch(Line) = "not considered"
    /\ HandBody(Line, hands[current_hand],
                current_hand_state, current_hand_street_max_bet, prev_action_dict)

\* game.py 505-506 and 602-607: the loop is over, the Game is built
RefreshSeenPlayers ==
    /\ game = "constructing" /\ row = Len(log)
    /\ game' = "built"
    /\ seen_players' = UNION {{hands[hand_list[k]].players[p] :
                                   p \in 1..Len(hands[hand_list[k]].players)} :
                                k \in 1..Len(hand_list)}
    /\ UNCHANGED <<log, original_file_path, games, rng, outputs, LoopVars, CardVars, EvalVars, RunVars, formatters>>

\* How many values the system's entropy can seed the generator with.
EntropyValues == 2

\* game.py 618-628: the loop over self.hand_list from its k-th hand on
RECURSIVE FormatLoop(_, _, _, _, _)
FormatLoop(heap, k, state, output_lines, entropy) ==
    IF k > Len(hand_list) THEN [hands |-> heap, rng |-> state, result |-> [lines |-> output_lines]]
    ELSE LET Then(call) ==
                 IF Raised(call.result)
                 THEN [hands |-> [heap EXCEPT ![hand_list[k]] = call.self], rng |-> call.rng,
                       result |-> call.result]
                 ELSE FormatLoop([heap EXCEPT ![hand_list[k]] = call.self], k + 1, call.rng,
                                 output_lines \o call.result.lines \o <<"", "", "">>, entropy)
         IN Then(format_as_pokerstars_hand(heap[hand_list[k]], currency, currency_symbol,
                                           timezone, original_file_path, state, entropy[k]))

\* What the system's entropy gives each hand's seed(None); it is not read
\* when the Game has a file path.
Entropies ==
    IF original_file_path # <<>> THEN {[k \in 1..Len(hand_list) |-> 0]}
    ELSE [1..Len(hand_list) -> 0..(EntropyValues - 1)]

\* Game.format_as_pokerstars_log(), game.py 609-630
FormatAsPokerstarsLog ==
    /\ game = "built"
    /\ Len(outputs) < MaxOutputs
    /\ \E entropy \in Entropies :
         \E call \in {FormatLoop(hands, 1, rng, <<>>, entropy)} :
            /\ hands' = call.hands
            /\ rng' = call.rng
            /\ outputs' = Append(outputs, [game |-> games, result |-> call.result])
    /\ UNCHANGED <<log, original_file_path, game, games, seen_players, row, current_hand,
                   current_hand_state, current_hand_street_max_bet, prev_action_dict,
                   street_action_dict, hand_list, CardVars, EvalVars, RunVars, formatters>>

\* Hands as PokerNow logs them.  A hand folded before the flop:
FoldedHand ==
    <<StartLine(1), SeatsLine, SmallBlindLine, BigBlindLine, RaiseLine, FoldLine,
      UncalledLine, CollectLine, EndLine(1)>>

\* a hand shown down on the flop, both players all in:
ShowdownHand ==
    <<StartLine(1), SeatsLine, YourHandLine, BigBlindLine, RaiseLine, CallLine, FlopLine,
      CheckLine, BetLine, ShowLine, BobShowLine, CollectWithLine, EndLine(1)>>

\* a hand with a dead button whose turn is dealt twice:
RunTwiceHand ==
    <<DeadButtonStartLine(2), SeatsLine, BigBlindLine, RaiseLine, CallLine, FlopLine,
      RunItTwiceLine, ShowLine, BobShowLine, TurnLine, SecondTurnLine, SecondCollectLine,
      CollectWithLine, EndLine(2)>>

\* a bomb pot:
BombPotHand ==
    <<StartLine(1), SeatsLine, AnteLine, BombPotLine, BombPotCallLine, FlopLine, CheckLine,
      FoldLine, GainedLine, EndLine(1)>>

\* a hand of the legacy format:
LegacyHand ==
    <<StartLine(1), LegacySeatsLine, SmallBlindLine, MissingSmallBlindLine, StraddleLine,
      FlopLine, WinsLine, EndLine(1)>>

\* a hand that runs both boards out to the river:
RiverHand ==
    <<StartLine(1), SeatsLine, BigBlindLine, RaiseLine, CallLine, RunItTwiceLine, ShowLine,
      BobShowLine, FlopLine, TurnLine, RiverLine, SecondFlopLine, SecondTurnLine,
      SecondRiverLine, CollectWithLine, SecondCollectLine, EndLine(1)>>

\* and a second hand to follow another in the same log.
NextHand ==
    <<DeadButtonStartLine(2), SeatsLine, BigBlindLine, RaiseLine, FoldLine, CollectLine,
      EndLine(2)>>

\* two hands with a show line between the end of the first and the start of
\* the second.
LateShowHands == FoldedHand \o <<ShowLine>> \o NextHand

\* a hand in which a flush of A K 4 3 2 loses to a straight flush.
WheelFlushHand ==
    <<StartLine(1), SeatsLine, BigBlindLine, RaiseLine, CallLine, LowFlopLine, SuitedShowLine,
      BobSuitedShowLine, BobCollectWithLine, EndLine(1)>>

\* a bomb pot whose bet is posted by the player in the second seat.
SecondSeatBombPotHand ==
    <<StartLine(1), SeatsLine, AnteLine, BobBombPotLine, FlopLine, CheckLine, GainedLine,
      EndLine(1)>>

Scripts == {FoldedHand, ShowdownHand, RunTwiceHand, BombPotHand, LegacyHand}

\* How many lines a log of the first two families has after its opening.
MaxFree == 2
\* How many lines are put into or taken out of a scripted hand.
MaxEdits == 1

\* Every sequence of at most n lines
RECURSIVE FreeLogs(_)
FreeLogs(n) ==
    IF n = 0 THEN {<<>>}
    ELSE FreeLogs(n - 1)
           \cup {Append(l, x) : l \in {f \in FreeLogs(n - 1) : Len(f) = n - 1}, x \in Lines}

\* A script with at most n edits, an edit being one line put in or taken out
RECURSIVE Edited(_, _)
Edited(script, n) ==
    IF n = 0 THEN {script}
    ELSE LET before == Edited(script, n - 1)
         IN before
              \cup {SubSeq(l, 1, i) \o <<x>> \o SubSeq(l, i + 1, Len(l)) :
                      l \in before, i \in 0..Len(script), x \in Lines}
              \cup {SubSeq(l, 1, i - 1) \o SubSeq(l, i + 1, Len(l)) :
                      l \in before, i \in 1..Len(script)}

\* The logs that are also parsed with another file path and with none
PlainLogs == Scripts \cup {RiverHand, FoldedHand \o NextHand, <<EndLine(1)>>, <<>>}

Logs ==
    FreeLogs(MaxFree)
      \cup {<<StartLine(1), SeatsLine>> \o l : l \in FreeLogs(MaxFree)}
      \cup UNION {Edited(script, MaxEdits) : script \in Scripts}
      \cup PlainLogs
      \cup {LateShowHands, WheelFlushHand, SecondSeatBombPotHand}

\* The rows of a log: each line with the time the table stamped it with, in
\* minutes
Rows(lines) == [i \in 1..Len(lines) |-> [line |-> lines[i], at |-> i]]

\* The paths of the files the logs are read from
FilePath(stem) == [parent |-> "logs", stem |-> stem, suffix |-> ".csv"]
FilePaths == {<<>>, <<FilePath(<<"a", "-", "1">>)>>, <<FilePath(<<"b">>)>>}

Init ==
    /\ \E l \in Logs, path \in FilePaths :
         /\ path = <<FilePath(<<"a", "-", "1">>)>> \/ l \in PlainLogs
         /\ log = Rows(l)
         /\ original_file_path = path
    /\ game = "none" /\ games = 0
    /\ row = 0 /\ hands = <<>> /\ current_hand = 0
    /\ current_hand_state = "before Flop" /\ current_hand_street_max_bet = 0
    /\ prev_action_dict = <<>> /\ street_action_dict = 0
    /\ hand_list = <<>> /\ seen_players = {} /\ rng = 0 /\ outputs = <<>>
    /\ CardIdle /\ EvalIdle /\ RunIdle /\ NoFormatters

Next ==
    \/ GameInit
    \/ StartingHand \/ EndingHand \/ BombPot
    \/ Raises \/ Bets \/ Calls \/ Checks \/ UncalledBet \/ Folds
    \/ BigBlind \/ Straddle \/ SmallBlind
    \/ PlayersStacks \/ PlayerStacks \/ YourHand
    \/ Flop \/ Turn \/ River \/ SecondFlop \/ SecondTurn \/ SecondRiver
    \/ Shows \/ Collected \/ RunItTwice \/ Ante \/ NotConsidered
    \/ RefreshSeenPlayers
    \/ FormatAsPokerstarsLog

Spec == Init /\ [][Next]_vars

\* ------------------------------------------------------------------------
\* hand.py 143-181, game.py 544-584: the hero and the aliases
\* ------------------------------------------------------------------------
\* A text a caller hands in is cut at " @ " as the names of the log are; a
\* text with no " @ " in it has the empty id.
Text(chars) == NameWithId(chars, "")

\* Hand.get_player_by_player_alias
get_player_by_player_alias(self, player_alias) ==
    FirstWhere({i \in DOMAIN self.players :
                  /\ player_alias.id = ""
                  /\ self.players[i].alias_name = <<player_alias.name>>})

\* Hand.get_player_by_player_name
get_player_by_player_name(self, player_name) ==
    FirstWhere({i \in DOMAIN self.players :
                  /\ player_name.id = ""
                  /\ self.players[i].player_name = player_name.name})

\* The three lookups taken in the opposite order.
set_hero_name_first(self, hero_name) ==
    LET by_alias == get_player_by_player_alias(self, hero_name)
        by_name_with_id == get_player_by_player_name_with_id(self, hero_name)
        by_name == get_player_by_player_name(self, hero_name)
        hero == IF by_name # 0 THEN by_name
                ELSE IF by_name_with_id # 0 THEN by_name_with_id
                ELSE by_alias
    IN [self EXCEPT !.hero_player = hero]

\* Hand.set_hero(hero_name): the hand with its hero set; the hero is what the
\* call returns.
set_hero(self, hero_name) ==
    LET by_alias == get_player_by_player_alias(self, hero_name)
        by_name_with_id == get_player_by_player_name_with_id(self, hero_name)
        by_name == get_player_by_player_name(self, hero_name)
        hero == IF by_alias # 0 THEN by_alias
                ELSE IF by_name_with_id # 0 THEN by_name_with_id
                ELSE by_name
    IN [self EXCEPT !.hero_player = hero]

\* Game.set_hero(player_name), from the k-th entry of the hand list on: the
\* hands after the calls and the number of entries the hero was found in.
\* An entry is a reference: a hand that is in the list twice is visited
\* twice.
RECURSIVE GameSetHero(_, _, _, _)
GameSetHero(heap, k, player_name, found_hero_count) ==
    IF k > Len(hand_list) THEN [hands |-> heap, returns |-> found_hero_count]
    ELSE LET hand == set_hero(heap[hand_list[k]], player_name)
         IN GameSetHero([heap EXCEPT ![hand_list[k]] = hand], k + 1, player_name,
                        found_hero_count + (IF hand.hero_player # 0 THEN 1 ELSE 0))

\* Game.update_player_aliases(player_name_with_id, alias), from the k-th
\* entry of the hand list on.  The Player a seat, an action or a posting
\* refers to is the one in hand.players, so all of them see the alias.
RECURSIVE update_player_aliases(_, _, _, _, _)
update_player_aliases(heap, k, player_name_with_id, alias, found_match_count) ==
    IF k > Len(hand_list) THEN [hands |-> heap, returns |-> found_match_count]
    ELSE LET player == get_player_by_player_name_with_id(heap[hand_list[k]], player_name_with_id)
         IN IF player = 0
            THEN update_player_aliases(heap, k + 1, player_name_with_id, alias, found_match_count)
            ELSE update_player_aliases(
                     [heap EXCEPT ![hand_list[k]].players[player].alias_name = <<alias>>],
                     k + 1, player_name_with_id, alias, found_match_count + 1)

\* ------------------------------------------------------------------------
\* player.py 7-28, game.py 586-598: Players compared
\* ------------------------------------------------------------------------
\* Player.__eq__ is the one @dataclass writes: the fields of the two, in the
\* order of their declaration, compared as tuples.
PlayerEq(self, other) ==
    /\ self.player_name = other.player_name
    /\ self.player_id = other.player_id
    /\ self.player_name_with_id = other.player_name_with_id
    /\ self.alias_name = other.alias_name

\* hash(text): a number the text determines; two texts may share it
StrHash(text) == HashChars(<<Alphabet[1 + (Len(text.name) % Len(Alphabet))]>>, Len(text.id))

\* Player.__hash__
PlayerHash(self) == StrHash(self.player_name_with_id)

\* player in hand.players
PlayerIn(player, self) == \E p \in DOMAIN self.players : PlayerEq(self.players[p], player)

\* Game.find_hand_with_player(player): the place in the hand list of the
\* first hand the player is in, 0 for None
find_hand_with_player(heap, player) ==
    FirstWhere({k \in DOMAIN hand_list : PlayerIn(player, heap[hand_list[k]])})

\* ------------------------------------------------------------------------
\* main.py: a run of main() over the files of a directory
\* ------------------------------------------------------------------------

\* How many files a run has at most
MaxFiles == 2

\* Logs whose parse ends in an exception: a show line with a token that is
\* no card, and a fold of a player who has no seat.
BadCardLog == <<StartLine(1), SeatsLine, BadShowLine, EndLine(1)>>
StrangerLog == <<StartLine(1), SeatsLine, StrangerFoldLine, EndLine(1)>>

\* A hand whose stack line is in the log twice
DoubleSeatsLog == <<StartLine(1), SeatsLine>> \o Tail(FoldedHand)

\* The files a directory may hold
RunLogs ==
    Scripts \cup {RiverHand, FoldedHand \o NextHand, <<JoinedLine>> \o FoldedHand,
                  BadCardLog, StrangerLog, DoubleSeatsLog}

\* The stems of the files of the directory, in the order iterdir gives them
Stems == << <<"a", "-", "1">>, <<"b">> >>

\* The aliases and the hero name of the command line.  A key is found only
\* as preprocess_log leaves the names, without their spaces.
Hero == <<"H", "e", "r", "o">>
Bobby == <<"B", "o", "b", "b", "y">>
Alias(key, alias) == [key |-> key, alias |-> alias]

\* A hero given by the name alone, with nobody and with another player
\* carrying that name as alias
HeroArgs ==
    [aliases : {<<>>, <<Alias(ProcessedPlayer(Bob), Ann.name)>>},
     heroName : {Text(Ann.name)}]

RunArgs ==
    [aliases : {<<>>,
                <<Alias(Ann, Hero)>>,
                <<Alias(ProcessedPlayer(Bob), Bobby), Alias(Ann, Hero)>>,
                <<Alias(Bob, Hero)>>,
                <<Alias(Ann, <<>>)>>},
     heroName : {Text(Hero), Ann}]
    \cup HeroArgs

\* The Players a caller asks find_hand_with_player about, built from the
\* text of the log as the parser builds them
CallerPlayers == {Player(key.name, key, key.id) : key \in {Ann, ProcessedPlayer(Bob), Cat}}

InitRun ==
    /\ CardIdle /\ EvalIdle /\ GameIdle /\ NoFormatters
    /\ args \in RunArgs
    /\ \E n \in 1..MaxFiles : files \in [1..n -> {Rows(l) : l \in RunLogs}]
    /\ run_state = "load"
    /\ applied = 0
    /\ returned = <<>>

\* main.py 302-306 and parse_file, main.py 28-33: the next file is read
ReadFile ==
    /\ run_state = "load"
    /\ games < Len(files)
    /\ log' = files[games + 1]
    /\ original_file_path' = <<FilePath(Stems[games + 1])>>
    /\ game' = "none"
    /\ run_state' = "parse"
    /\ UNCHANGED <<games, seen_players, rng, outputs, LoopVars, CardVars, EvalVars,
                   args, files, applied, returned, formatters>>

\* main.py 34: Game(poker_now_log=lines, ...)
ParseFile == run_state = "parse" /\ GameInit

\* main.py 37-39 and 308-310: parse_file catches PNLogParsingException and
\* returns None, and main goes on to the next file; any other exception
\* leaves parse_file and main.
ParseFailed ==
    /\ run_state = "parse"
    /\ game \notin {"none", "constructing", "built"}
    /\ run_state' = IF game = PNLogParsingException.exception THEN "load" ELSE game
    /\ UNCHANGED <<GameVars, CardVars, EvalVars, args, files, applied, returned, formatters>>

\* main.py 314-324: the next alias of the command line
ApplyAlias ==
    /\ run_state = "parse" /\ game = "built"
    /\ applied < Len(args.aliases)
    /\ \E call \in {update_player_aliases(hands, 1, args.aliases[applied + 1].key,
                                          args.aliases[applied + 1].alias, 0)} :
         /\ hands' = call.hands
         /\ returned' = <<call.returns>>
    /\ applied' = applied + 1
    /\ UNCHANGED <<log, original_file_path, game, games, seen_players, rng, outputs, row,
                   current_hand, current_hand_state, current_hand_street_max_bet,
                   prev_action_dict, street_action_dict, hand_list, CardVars, EvalVars,
                   args, files, run_state, formatters>>

\* game.find_hand_with_player(player), as the interactive setup that main
\* runs after the aliases calls it (main.py 111, 326-328)
FindHandWithPlayer ==
    /\ run_state = "parse" /\ game = "built"
    /\ applied = Len(args.aliases)
    /\ \E player \in CallerPlayers : returned' = <<find_hand_with_player(hands, player)>>
    /\ UNCHANGED <<GameVars, CardVars, EvalVars, args, files, run_state, applied, formatters>>

\* main.py 330-332
SetHero ==
    /\ run_state = "parse" /\ game = "built"
    /\ applied = Len(args.aliases)
    /\ \E call \in {GameSetHero(hands, 1, args.heroName, 0)} :
         /\ hands' = call.hands
         /\ returned' = <<call.returns>>
    /\ run_state' = "save"
    /\ UNCHANGED <<log, original_file_path, game, games, seen_players, rng, outputs, row,
                   current_hand, current_hand_state, current_hand_street_max_bet,
                   prev_action_dict, street_action_dict, hand_list, CardVars, EvalVars,
                   args, files, applied, formatters>>

\* save_game_to_file_pokerstars, main.py 43-86: the lines are formatted, the
\* name of the file is taken from the first hand of the list, and the file is
\* written; an exception is logged and raised again, and ends main.
SaveGame ==
    /\ run_state = "save"
    /\ \E entropy \in Entropies :
         \E call \in {FormatLoop(hands, 1, rng, <<>>, entropy)} :
            LET saved == IF Raised(call.result) THEN call.result
                         ELSE IF hand_list = <<>> THEN IndexError
                         ELSE IF hands[hand_list[1]].hand_start_datetime = <<>>
                              THEN AttributeError
                         ELSE call.result
            IN /\ hands' = call.hands
               /\ rng' = call.rng
               /\ outputs' = Append(outputs, [game |-> games, result |-> saved])
               /\ run_state' = IF Raised(saved) THEN saved.exception ELSE "load"
    /\ applied' = 0
    /\ UNCHANGED <<log, original_file_path, game, games, seen_players, row, current_hand,
                   current_hand_state, current_hand_street_max_bet, prev_action_dict,
                   street_action_dict, hand_list, CardVars, EvalVars, args, files, returned, formatters>>

\* main.py 341-342: every file has been gone through
Finish ==
    /\ run_state = "load"
    /\ games = Len(files)
    /\ run_state' = "finished"
    /\ UNCHANGED <<GameVars, CardVars, EvalVars, args, files, applied, returned, formatters>>

NextRun ==
    \/ ReadFile \/ ParseFile \/ ParseFailed
    \/ StartingHand \/ EndingHand \/ BombPot
    \/ Raises \/ Bets \/ Calls \/ Checks \/ UncalledBet \/ Folds
    \/ BigBlind \/ Straddle \/ SmallBlind
    \/ PlayersStacks \/ PlayerStacks \/ YourHand
    \/ Flop \/ Turn \/ River \/ SecondFlop \/ SecondTurn \/ SecondRiver
    \/ Shows \/ Collected \/ RunItTwice \/ Ante \/ NotConsidered
    \/ RefreshSeenPlayers
    \/ ApplyAlias \/ FindHandWithPlayer \/ SetHero \/ SaveGame \/ Finish

SpecRun == InitRun /\ [][NextRun]_vars

\* ------------------------------------------------------------------------
\* hand.py 238-242 when two Games are formatted at the same time
\* ------------------------------------------------------------------------
\* seed and getrandbits are functions of the random module: both calls work
\* on the one generator of the process (rng).  Each call is one step; between
\* the seed and the draw of one formatter the other may take its steps.

\* How many calls of format_as_pokerstars_log run at the same time, how many
\* hands a Game has at most, and the greatest hand number
Formatters == 2
MaxHands == 2
MaxHandNumber == 2

\* The hand numbers of the hands of a Game's hand list
HandNumbers == UNION {[1..n -> 1..MaxHandNumber] : n \in 1..MaxHands}

\* A call that has not started: the Game's path and the numbers of its hands
Formatter(path, hand_numbers) ==
    [original_file_path |-> path, hand_numbers |-> hand_numbers, seeded |-> FALSE,
     hand_ids |-> <<>>]

InitConcurrent ==
    /\ CardIdle /\ EvalIdle /\ GameIdle /\ RunIdle
    /\ formatters \in [1..Formatters ->
                         {Formatter(FilePath(stem), hand_numbers) :
                            stem \in {Stems[i] : i \in DOMAIN Stems},
                            hand_numbers \in HandNumbers}]

\* hand.py 241 in formatter t: seed(a=random_seed) for its next hand
Seed(t) ==
    /\ ~formatters[t].seeded
    /\ Len(formatters[t].hand_ids) < Len(formatters[t].hand_numbers)
    /\ rng' = seed(random_seed(formatters[t].original_file_path,
                               formatters[t].hand_numbers[Len(formatters[t].hand_ids) + 1]))
    /\ formatters' = [formatters EXCEPT ![t].seeded = TRUE]

\* hand.py 242 in formatter t: hand_id = getrandbits(64)
GetRandBits(t) ==
    /\ formatters[t].seeded
    /\ rng' = getrandbits(rng)
    /\ formatters' = [formatters EXCEPT ![t].seeded = FALSE,
                                        ![t].hand_ids = Append(@, getrandbits(rng))]

SeedStep ==
    /\ \E t \in DOMAIN formatters : Seed(t)
    /\ UNCHANGED <<log, original_file_path, game, games, seen_players, outputs, LoopVars,
                   CardVars, EvalVars, RunVars>>

DrawStep ==
    /\ \E t \in DOMAIN formatters : GetRandBits(t)
    /\ UNCHANGED <<log, original_file_path, game, games, seen_players, outputs, LoopVars,
                   CardVars, EvalVars, RunVars>>

NextConcurrent == SeedStep \/ DrawStep

SpecConcurrent == InitConcurrent /\ [][NextConcurrent]_vars

\* ------------------------------------------------------------------------
\* The standard ranking of poker hands, to compare the evaluator with
\* ------------------------------------------------------------------------

CardSet(list) == {list[i] : i \in 1..Len(list)}
RankCount(S, r) == Cardinality({c \in S : c.rank = r})
SuitCount(S, s) == Cardinality({c \in S : c.suit = s})
RankValue(r) == Index(ranks_order, r)

\* The ten runs of five ranks that make a straight, the wheel first.
Runs == {{"A", "2", "3", "4", "5"}}
          \cup {{ranks_order[i + k] : k \in 0..4} : i \in 1..(Len(ranks_order) - 4)}
Royal == {"T", "J", "Q", "K", "A"}
Wheel == {"A", "2", "3", "4", "5"}

HasRun(S, run) == \A r \in run : \E c \in S : c.rank = r
HasSuitedRun(S, run) == \E s \in Suits : \A r \in run : \E c \in S : c.rank = r /\ c.suit = s

\* The best category five cards of S can make.
StandardCategory(S) ==
    IF HasSuitedRun(S, Royal) THEN PokerHand.ROYAL_FLUSH
    ELSE IF \E run \in Runs : HasSuitedRun(S, run) THEN PokerHand.STRAIGHT_FLUSH
    ELSE IF \E r \in Ranks : RankCount(S, r) >= 4 THEN PokerHand.FOUR_OF_KIND
    ELSE IF \E r, q \in Ranks : r # q /\ RankCount(S, r) >= 3 /\ RankCount(S, q) >= 2
         THEN PokerHand.FULL_HOUSE
    ELSE IF \E s \in Suits : SuitCount(S, s) >= 5 THEN PokerHand.FLUSH
    ELSE IF \E run \in Runs : HasRun(S, run) THEN PokerHand.STRAIGHT
    ELSE IF \E r \in Ranks : RankCount(S, r) >= 3 THEN PokerHand.THREE_OF_KIND
    ELSE IF \E r, q \in Ranks : r # q /\ RankCount(S, r) >= 2 /\ RankCount(S, q) >= 2
         THEN PokerHand.TWO_PAIR
    ELSE IF \E r \in Ranks : RankCount(S, r) >= 2 THEN PokerHand.PAIR
    ELSE PokerHand.HIGH_CARD

Returned == best_hand # None /\ best_hand # IndexError

\* ------------------------------------------------------------------------
\* Claims
\* ------------------------------------------------------------------------

\* C3: for every list of 5 to 7 distinct cards, the category eval_final_hand
\* returns is the best category that five of the cards can make.
C3_BestCategory ==
    Returned => best_hand.category = StandardCategory(CardSet(cards))

\* C4: eval_final_hand returns the same (description, category, tie-break)
\* for every order of the same cards: each call answers what the first call did.
C4_OrderInvariant ==
    (Returned /\ first_hand # None) => best_hand = first_hand

\* C4 witness: a call has returned, the caller has put the list into an order
\* that is not the sorted one, and a second call is due.
C4_Witness ==
    /\ first_hand # None
    /\ best_hand = None
    /\ cards # SortCards(cards)
    /\ Len(cards) = MaxPermCards

\* C5: a call of eval_final_hand leaves the caller's list as it was.
C5_InputUnchanged ==
    [][(best_hand = None /\ best_hand' # None) => cards' = cards]_vars

\* C6: a Card built from a token renders, in the notation of the token, as
\* that token, and its plain rendering is a token the constructor accepts.
C6_RoundTrip ==
    (card # None /\ card # InvalidCardException) =>
        /\ name \in DOMAIN strToEmoji => card.card_str = name
        /\ name \in DOMAIN emojiToStr => card.card_emoji_str = name
        /\ Card(card.card_str) # InvalidCardException

\* The other nine straights, none of one suit: four spades and a heart at the top.
OtherStraights ==
    {[k \in 1..5 |-> Card(<<IF k = 5 THEN "h" ELSE "s", ranks_order[i + k - 1]>>)] :
        i \in 1..(Len(ranks_order) - 4)}

BestIsWheel(S) ==
    /\ StandardCategory(S) = PokerHand.STRAIGHT
    /\ \A run \in Runs : HasRun(S, run) => run = Wheel

\* C7: cards whose best hand is the wheel evaluate to a straight, "Ace to
\* Five", with a tie-break below that of every other straight.
C7_Wheel ==
    (Returned /\ BestIsWheel(CardSet(cards))) =>
        /\ best_hand.category = PokerHand.STRAIGHT
        /\ best_hand.desc = <<"a", "straight,", "Ace", "to", "Five">>
        /\ \A other \in OtherStraights :
              /\ eval_final_hand(other).category = PokerHand.STRAIGHT
              /\ eval_final_hand(other).value > best_hand.value

C7_Witness ==
    /\ Returned
    /\ BestIsWheel(CardSet(cards))
    /\ Len(cards) = 7

\* C8: eval_final_hand returns ("a royal flush", ROYAL_FLUSH, 0) exactly when
\* the cards hold Ten to Ace of one suit; every other straight flush is
\* reported as STRAIGHT_FLUSH.
C8_RoyalFlush ==
    Returned =>
        LET S == CardSet(cards)
            royal == [desc |-> <<"a", "royal", "flush">>,
                      category |-> PokerHand.ROYAL_FLUSH, value |-> 0]
        IN /\ HasSuitedRun(S, Royal) <=> best_hand = royal
           /\ best_hand.category = PokerHand.ROYAL_FLUSH => best_hand = royal
           /\ (StandardCategory(S) = PokerHand.STRAIGHT_FLUSH)
                 => best_hand.category = PokerHand.STRAIGHT_FLUSH

C8_Witness ==
    /\ Returned
    /\ best_hand.category = PokerHand.ROYAL_FLUSH
    /\ Len(cards) = 7
    /\ HasSuitedRun(CardSet(cards), {"9", "T", "J", "Q", "K"})

\* The best full house in S: the highest rank held three times beside a pair,
\* and the highest other rank held twice.
BestThree(S) ==
    CHOOSE r \in Ranks :
        /\ RankCount(S, r) >= 3
        /\ \E q \in Ranks : q # r /\ RankCount(S, q) >= 2
        /\ \A r2 \in Ranks :
              (RankCount(S, r2) >= 3 /\ \E q \in Ranks : q # r2 /\ RankCount(S, q) >= 2)
                 => RankValue(r2) <= RankValue(r)
BestPair(S) ==
    CHOOSE q \in Ranks :
        /\ q # BestThree(S)
        /\ RankCount(S, q) >= 2
        /\ \A q2 \in Ranks :
              (q2 # BestThree(S) /\ RankCount(S, q2) >= 2) => RankValue(q2) <= RankValue(q)

\* The five-card full houses that the fourth deal holds.
FullHouses ==
    {h \in SubLists(CardList(Prefix(Deals[4], DeckSize)), 5) :
        /\ StandardCategory(CardSet(h)) = PokerHand.FULL_HOUSE}

\* C9: of two full houses the one with the higher three of a kind has the
\* higher tie-break, whatever the pairs; with the same three of a kind the
\* higher pair has it.  So the full house reported for up to 7 cards is the
\* one with the highest three of a kind.
C9_FullHouse ==
    (Returned /\ StandardCategory(CardSet(cards)) = PokerHand.FULL_HOUSE) =>
        LET S == CardSet(cards)
            three == BestThree(S)
            pair == BestPair(S)
        IN /\ best_hand.category = PokerHand.FULL_HOUSE
           /\ best_hand.desc = <<"a", "full", "house,", hand_rank_names_plural[three],
                                 "full", "of", hand_rank_names_plural[pair]>>
           /\ \A h \in FullHouses :
                 LET other == eval_final_hand(h)
                     three2 == BestThree(CardSet(h))
                     pair2 == BestPair(CardSet(h))
                 IN /\ RankValue(three2) > RankValue(three) => other.value > best_hand.value
                    /\ RankValue(three2) < RankValue(three) => other.value < best_hand.value
                    /\ (three2 = three /\ RankValue(pair2) > RankValue(pair))
                          => other.value > best_hand.value
                    /\ (three2 = three /\ pair2 = pair) => other.value = best_hand.value

\* C9 witness: seven cards with two threes of a kind, kings and aces.
C9_Witness ==
    /\ Returned
    /\ Len(cards) = 7
    /\ RankCount(CardSet(cards), "A") = 3
    /\ RankCount(CardSet(cards), "K") = 3

\* ------------------------------------------------------------------------
\* Claims about Game and the formatting of its hands
\* ------------------------------------------------------------------------

\* C1: for a Game built with a known file path, every call of
\* format_as_pokerstars_log on it, and every call on a Game parsed again from
\* the same rows with the same path, returns the same lines (or ends in the
\* same exception): the identifier of a hand depends on the file stem and the
\* hand number only, not on the state earlier calls left the generator in,
\* and the seat summaries the first call fills in change no line of a later
\* call.
C1_Repeatable ==
    original_file_path # <<>> =>
        \A i, j \in DOMAIN outputs : outputs[i].result = outputs[j].result

\* Three calls, two on the first Game and one on the Game parsed again, of a
\* log with a hand whose loser showed cards: the first call filled in the
\* loser's summary.
C1_Witness ==
    /\ original_file_path # <<>>
    /\ game = "built"
    /\ Len(outputs) = 3
    /\ outputs[1].game = 1 /\ outputs[2].game = 1 /\ outputs[3].game = 2
    /\ ~Raised(outputs[1].result)
    /\ hand_list # <<>>
    /\ \E k \in DOMAIN hands[hand_list[1]].seats :
         LET seat_summary == hands[hand_list[1]].seats[k].seat_summary
         IN Len(seat_summary) > 4 /\ seat_summary[1] = "showed" /\ seat_summary[4] = "lost"

\* The rows among the first n whose line is an end marker, and the number of
\* start markers among the first n rows
EndMarkers(n) == {i \in 1..n : Branch(log[i].line) = "ending hand"}
StartMarkers(n) == Cardinality({i \in 1..n : Branch(log[i].line) = "starting hand"})

\* C2: the hand list has one entry for each end marker processed, in the
\* order of the log: its k-th entry is the hand that was current at the k-th
\* end marker, the hand of the last start marker before it (the hand that
\* __init__ starts with if there was none).  A hand whose start marker no end
\* marker follows is therefore not in the list.
C2_HandList ==
    game \in {"constructing", "built"} =>
        /\ Len(hand_list) = Cardinality(EndMarkers(row))
        /\ \A i \in EndMarkers(row) :
             hand_list[Cardinality(EndMarkers(i))] = 1 + StartMarkers(i)

\* A Game with a hand in its list and a hand that was started and never
\* ended.
C2_Witness ==
    /\ game = "built"
    /\ hand_list # <<>>
    /\ \E h \in 2..Len(hands) : \A k \in DOMAIN hand_list : hand_list[k] # h

\* The loop of __init__ has just processed a row
RowProcessed == row' = row + 1

\* C10, as the claim has it: no line but a start marker moves the street
\* state backwards in the order before Flop < on the Flop < on the Turn <
\* on the River < at Showdown < at second Showdown.
C10_NeverBackwards ==
    [][RowProcessed /\ Branch(Line) # "starting hand"
         => StreetOrder(current_hand_state') >= StreetOrder(current_hand_state)]_vars

\* C10, amended: the street state is set by the line alone.  A start marker
\* sets before Flop; a reveal line, of the first or of the second run, sets
\* the street it names; a collection line sets at second Showdown if it names
\* the second run and at Showdown if not; every other line leaves the state
\* as it was.
C10_StreetState ==
    [][RowProcessed =>
         current_hand_state' =
             CASE Branch(Line) = "starting hand" -> "before Flop"
               [] Branch(Line) \in {"flop", "second flop"} -> "on the Flop"
               [] Branch(Line) \in {"turn", "second turn"} -> "on the Turn"
               [] Branch(Line) \in {"river", "second river"} -> "on the River"
               [] Branch(Line) = "collected" ->
                    IF In("second run", Line) THEN "at second Showdown" ELSE "at Showdown"
               [] OTHER -> current_hand_state]_vars

\* The flop of the second run has just been read in a hand whose first run
\* had reached the river: the state is back on the Flop.
C10_Witness ==
    /\ game = "constructing"
    /\ row > 1
    /\ Branch(log[row].line) = "second flop"
    /\ current_hand_state = "on the Flop"
    /\ \E i \in 1..(row - 1) :
         /\ Branch(log[i].line) = "river"
         /\ \A k \in i..row : Branch(log[k].line) # "starting hand"

\* ------------------------------------------------------------------------
\* Claims about lines that name unknown players, and about runs over files
\* ------------------------------------------------------------------------

\* Every Action stored in an action list of the hand
ActionsOf(self) ==
    self.pre_flop_actions \o self.flop_actions \o self.turn_actions
        \o self.river_actions \o self.showdown_actions
        \o self.run_it_twice_showdown_actions

\* C11: a raise, bet, call, check, fold, show, collect or uncalled-bet line
\* that names a player who is not among the players of the current hand
\* aborts the parse: while the Game is being built, and once it is built, no
\* action list of any of its hands holds an Action whose player is None.
C11_NoMissingPlayer ==
    game \in {"constructing", "built"} =>
        \A h \in DOMAIN hands : \A k \in DOMAIN ActionsOf(hands[h]) :
            ActionsOf(hands[h])[k].player # 0

\* C12: in a run over several files, a file whose parse ends in an exception
\* (a token that is no card, a line of a player with no seat) is skipped: it
\* gets no output, and the run goes on to the files after it, so the
\* exception of a parse never becomes the end of the run.
C12_FailedFileSkipped ==
    game \notin {"none", "constructing", "built"} =>
        /\ run_state \in {"parse", "load", "finished"}
        /\ \A i \in DOMAIN outputs : outputs[i].game # games

\* C13: when two Games are formatted at the same time, every hand identifier
\* a formatter has drawn is the one the hand gets when it is formatted alone,
\* a function of the stem of its file and of its hand number.
C13_IdsAsAlone ==
    \A t \in DOMAIN formatters : \A k \in DOMAIN formatters[t].hand_ids :
        formatters[t].hand_ids[k]
            = HandId(0, <<formatters[t].original_file_path>>, formatters[t].hand_numbers[k], 0)

\* Where the lines of the k-th hand begin in the lines of a log, each hand
\* being followed by three empty lines
RECURSIVE HandStart(_, _, _)
HandStart(lines, start, k) ==
    IF k = 1 THEN start
    ELSE HandStart(lines,
                   3 + FirstWhere({i \in start..Len(lines) : lines[i] = ""}), k - 1)

\* No seat of the hand has chips and the hand has no dealer
NoStackNoDealer(self) ==
    /\ self.dealer = None
    /\ \A i \in DOMAIN self.seats : self.seats[i].stack_size = 0

\* C14, the header: in every log that was formatted, a hand with no dealer
\* and no seat with a positive stack has seat 1 as its button.
C14_Header ==
    \A i \in DOMAIN outputs :
        ~Raised(outputs[i].result) /\ outputs[i].game = games =>
            \A k \in DOMAIN hand_list :
                NoStackNoDealer(hands[hand_list[k]]) =>
                    outputs[i].result.lines[HandStart(outputs[i].result.lines, 1, k) + 1]
                        = "Table 'PNLogConverter' 10-max Seat #1 is the button"

\* C14, the bomb pot: a bomb-pot line processed in a hand none of whose seats
\* has a positive stack leaves the player at seat 1 as the dealer, and no
\* dealer if no seat has the number 1.
C14_BombPot ==
    RowProcessed /\ Branch(Line) = "bomb pot"
        /\ (\A i \in DOMAIN hands[current_hand].seats :
               hands[current_hand].seats[i].stack_size = 0)
      => LET self == hands'[current_hand]
             first == SeatNumbered(self, 1)
         IN self.dealer = IF first # 0 THEN self.players[self.seats[first].seat_player]
                          ELSE None

\* C14: whenever no seat of a hand has a positive stack and no dealer is
\* recorded, the button is seat 1, in the header the formatter writes and in
\* the dealer a bomb-pot line sets.
C14_ButtonSeatOne == []C14_Header /\ [][C14_BombPot]_vars

\* A formatted log with a hand that has seats, none with chips, and no
\* dealer, and a hand in which a bomb-pot line has made the player at seat 1
\* the dealer.
C14_Witness ==
    /\ outputs # <<>> /\ ~Raised(outputs[1].result)
    /\ \E k \in DOMAIN hand_list :
         /\ NoStackNoDealer(hands[hand_list[k]])
         /\ hands[hand_list[k]].seats # <<>>

C14_BombPotWitness ==
    /\ game = "constructing"
    /\ row > 0 /\ Branch(log[row].line) = "bomb pot"
    /\ hands[current_hand].seats # <<>>
    /\ \A i \in DOMAIN hands[current_hand].seats : hands[current_hand].seats[i].stack_size = 0
    /\ hands[current_hand].dealer # None

\* The hands with every player of the key given the alias as the name, and
\* no alias: what the lines have to read like if the alias stands wherever
\* the player is named.
RenamedBy(heap, alias) ==
    [h \in DOMAIN heap |->
        [heap[h] EXCEPT !.players =
            [p \in DOMAIN heap[h].players |->
                IF heap[h].players[p].player_name_with_id = alias.key
                THEN [heap[h].players[p] EXCEPT !.player_name = alias.alias, !.alias_name = <<>>]
                ELSE heap[h].players[p]]]]

RECURSIVE Renamed(_, _)
Renamed(heap, aliases) ==
    IF aliases = <<>> THEN heap
    ELSE Renamed(IF Head(aliases).alias # <<>> THEN RenamedBy(heap, Head(aliases)) ELSE heap,
                 Tail(aliases))

\* C15, the lines: the log written for a Game after its aliases were set
\* reads as if each player with a non-empty alias had the alias as the name,
\* in whatever line the player is named.
C15_Lines ==
    \A i \in DOMAIN outputs :
        /\ run_state \in {"load", "finished"}
        /\ outputs[i].game = games /\ ~Raised(outputs[i].result)
        =>
            \E call \in {FormatLoop(Renamed(hands, args.aliases), 1, rng, <<>>,
                                    [k \in DOMAIN hand_list |-> 0])} :
                outputs[i].result = call.result

\* C15, the count: update_player_aliases returns the number of entries of
\* the hand list whose hand has a player of the key.
C15_Returns ==
    applied' = applied + 1 =>
        returned' = <<Cardinality({k \in DOMAIN hand_list :
                         get_player_by_player_name_with_id(
                             hands[hand_list[k]], args.aliases[applied + 1].key) # 0})>>

\* C15: after update_player_aliases(key, alias) with a non-empty alias, every
\* line of every hand of the hand list that names the player of the key shows
\* the alias and not the name, and the call returns the number of hands the
\* player was found in.
C15_AliasEverywhere == []C15_Lines /\ [][C15_Returns]_vars

\* The Players of the hands of the hand list, and those a caller builds
PlayersAbout ==
    CallerPlayers
      \cup UNION {{hands[hand_list[k]].players[p] : p \in DOMAIN hands[hand_list[k]].players} :
                    k \in DOMAIN hand_list}

\* C16: two Players are equal exactly when their keys are equal, whatever
\* their aliases, and equal Players have equal hashes.
C16_EqualByKey ==
    \A self, other \in PlayersAbout :
        /\ PlayerEq(self, other) <=> self.player_name_with_id = other.player_name_with_id
        /\ PlayerEq(self, other) => PlayerHash(self) = PlayerHash(other)

\* C17: a line that matches none of the patterns does not end the parse and
\* changes nothing but the raw strings of the current hand, to which it is
\* appended: the other fields of the hand, the other hands, the street state,
\* the maximum bet, the last commits, the routing and the hand list stay.
C17_UnrecognisedLine ==
    [][Parsing /\ Branch(Line) = "not considered" =>
         /\ game' = "constructing"
         /\ row' = row + 1
         /\ hands' = [hands EXCEPT ![current_hand].raw_strings = Append(@, Line)]
         /\ UNCHANGED <<current_hand, current_hand_state, current_hand_street_max_bet,
                        prev_action_dict, street_action_dict, hand_list>>]_vars

\* Such a line has just been read on the flop of a hand with a bet made
C17_Witness ==
    /\ game = "constructing"
    /\ row > 0 /\ Branch(log[row].line) = "not considered"
    /\ current_hand_state = "on the Flop"
    /\ current_hand_street_max_bet > 0
    /\ prev_action_dict # <<>>
    /\ hands[current_hand].raw_strings[Len(hands[current_hand].raw_strings)] = log[row].line

\* The rows read so far hold an end marker with no start marker after it
AfterEndMarker ==
    \E e \in 1..row :
        /\ Branch(log[e].line) = "ending hand"
        /\ \A k \in (e + 1)..row : Branch(log[k].line) # "starting hand"

\* The hand a start line allocates, but for what the line itself gives it
Unmarked(self) ==
    [self EXCEPT !.raw_strings = <<>>, !.hand_type = Hand.hand_type, !.dealer = Hand.dealer,
                 !.hand_start_datetime = Hand.hand_start_datetime,
                 !.hand_number = Hand.hand_number]

\* The last hand of the hand list
LastListed == hand_list[Len(hand_list)]

\* a line after the end marker of the last listed hand is recorded on that
\* hand, a show line giving it the hole cards of the seat and the show action,
C18_Recorded ==
    Parsing /\ AfterEndMarker /\ Branch(Line) # "starting hand" /\ game' = "constructing" =>
        /\ hand_list # <<>> /\ current_hand = LastListed /\ current_hand' = current_hand
        /\ hand_list' \in {hand_list, Append(hand_list, current_hand)}
        /\ \A h \in DOMAIN hands' : h # current_hand => h \in DOMAIN hands /\ hands'[h] = hands[h]
        /\ Len(hands'[LastListed].raw_strings) = Len(hands[LastListed].raw_strings) + 1
        /\ Branch(Line) = "shows" =>
             LET before == hands[LastListed]
                 after == hands'[LastListed]
                 p_seat == get_seat_by_player_name_with_id(before, Line.player)
                 list == street_action_lists[current_hand_state]
             IN /\ after.seats[p_seat].seat_hole_cards_obj = Cards(Line.cards).list
                /\ Len(after[list]) = Len(before[list]) + 1
                /\ after[list][Len(after[list])].action = "show"
                /\ after[list][Len(after[list])].player
                     = get_player_by_player_name_with_id(before, Line.player)

\* and the hand the next start marker allocates has nothing of them.
C18_NextHandFresh ==
    Parsing /\ Branch(Line) = "starting hand" /\ game' = "constructing" =>
        /\ current_hand' = Len(hands) + 1
        /\ \A h \in DOMAIN hands : hands'[h] = hands[h]
        /\ Unmarked(hands'[current_hand']) = Hand

\* C18: a show line, or another recognised line, read after the end marker of
\* hand N and before the next start marker is recorded on hand N, the hand
\* already in the hand list getting the hole cards of the seat and the show
\* action, and hand N+1 gets nothing from it.
C18_LateLineOnEndedHand == [][C18_Recorded /\ C18_NextHandFresh]_vars

\* The second hand has started after a show line that followed the end of the
\* first, which holds the cards shown
C18_Witness ==
    /\ game = "constructing" /\ row > 2
    /\ Branch(log[row].line) = "starting hand"
    /\ Branch(log[row - 1].line) = "shows"
    /\ Branch(log[row - 2].line) = "ending hand"
    /\ Len(hand_list) = 1 /\ current_hand # hand_list[1]
    /\ \E s \in DOMAIN hands[hand_list[1]].seats :
         hands[hand_list[1]].seats[s].seat_hole_cards_obj # <<>>
    /\ \E a \in DOMAIN hands[hand_list[1]].showdown_actions :
         hands[hand_list[1]].showdown_actions[a].action = "show"
    /\ hands[current_hand].seats = <<>>

\* The summary a seat is constructed with
DefaultSummary == <<"didn't", "show", "and", "lost">>

\* The result best of the evaluator names, where that is asked, the best
\* category that five of the cards make
BestHand(best, list, standard) ==
    standard => best.category = StandardCategory(CardSet(list))

\* The seat after is what the formatting of the hand self makes of the seat
\* before: the loss is filled in for known cards and a default summary, in
\* both runs of a hand run twice, and another summary is kept.
Summarised(self, before, after, standard) ==
    LET known == before.seat_hole_cards # ""
        first == before.seat_hole_cards_obj \o self.board
        second == before.seat_hole_cards_obj \o self.run_it_twice_board
    IN /\ before.seat_summary = DefaultSummary /\ known =>
            \E best \in {eval_final_hand(first)} :
                /\ BestHand(best, first, standard)
                /\ after.seat_summary
                     = <<"showed", before.seat_hole_cards, "and", "lost", "with">> \o best.desc
       /\ before.seat_summary # DefaultSummary => after.seat_summary = before.seat_summary
       /\ self.run_it_twice /\ before.seat_run_it_twice_summary = <<>> /\ known =>
            \E best \in {eval_final_hand(second)} :
                /\ BestHand(best, second, standard)
                /\ after.seat_run_it_twice_summary = <<",", "and", "lost", "with">> \o best.desc

\* A call of format_as_pokerstars_log that returns leaves every seat of every
\* hand of the hand list summarised
Formatted(standard) ==
    game = "built" /\ Len(outputs') = Len(outputs) + 1
      /\ ~Raised(outputs'[Len(outputs')].result) =>
        \A k \in DOMAIN hand_list :
            \A s \in DOMAIN hands[hand_list[k]].seats :
                Summarised(hands[hand_list[k]], hands[hand_list[k]].seats[s],
                           hands'[hand_list[k]].seats[s], standard)

\* The summaries with the hand the evaluator returns, whatever it is
SummariesAsEvaluated == [][Formatted(FALSE)]_vars

\* C19: after a hand is formatted, every seat with known hole cards and the
\* default summary has the summary "showed [cards] and lost with" the best
\* hand of the hole cards and the board, a seat with another summary keeps it,
\* and in a hand run twice every seat with known cards and no summary of the
\* second run gets ", and lost with" the best hand on the second board.
C19_LostWithBestHand == [][Formatted(TRUE)]_vars

\* The lines of a player's move before the flop, which is appended to the
\* list of the street state
MoveBranches == {"raises", "bets", "calls", "checks", "folds"}

\* a start marker leaves the scratch state of the loop as it is at the start
\* of a hand, routed to the hand it allocates,
C20_Reset ==
    Parsing /\ Branch(Line) = "starting hand" /\ game' = "constructing" =>
        /\ current_hand_state' = "before Flop"
        /\ current_hand_street_max_bet' = 0
        /\ prev_action_dict' = <<>>
        /\ current_hand' \notin DOMAIN hands
        /\ street_action_dict' = current_hand'

\* and a move in the row after it goes to the list of that hand.
C20_Routed ==
    Parsing /\ row > 0 /\ Branch(log[row].line) = "starting hand"
      /\ Branch(Line) \in MoveBranches /\ game' = "constructing" =>
        /\ \A h \in DOMAIN hands : h # current_hand => hands'[h] = hands[h]
        /\ hands[current_hand].pre_flop_actions = <<>>
        /\ Len(hands'[current_hand].pre_flop_actions) = 1

\* C20: right after a start-marker line the street state is "before Flop",
\* the maximum bet is 0, the last-commit map is empty and the action lines are
\* routed to the lists of the newly allocated hand: nothing of the state,
\* maximum, commits or routing of the hand before carries over.
C20_FreshScratchState == [][C20_Reset /\ C20_Routed]_vars

\* The second hand has started after a first that was raised and shown down
C20_Witness ==
    /\ game = "constructing" /\ row > 1
    /\ Branch(log[row].line) = "starting hand"
    /\ Len(hand_list) = 1 /\ current_hand # hand_list[1]
    /\ hands[hand_list[1]].pre_flop_actions # <<>>
    /\ hands[hand_list[1]].pre_flop_actions[1].action = "raise"
    /\ hands[hand_list[1]].showdown_actions # <<>>
    /\ current_hand_state = "before Flop"
    /\ current_hand_street_max_bet = 0
    /\ prev_action_dict = <<>>
    /\ street_action_dict = current_hand

\* A move has gone to the list of a hand that started in the middle of another
C20_RoutedWitness ==
    /\ game = "constructing" /\ row > 2
    /\ Branch(log[row - 1].line) = "starting hand"
    /\ Branch(log[row].line) \in MoveBranches
    /\ Len(hands) > 2
    /\ Len(hands[current_hand].pre_flop_actions) = 1
    /\ hands[current_hand - 1].pre_flop_actions # <<>>

\* The branches of the lines that reveal community cards
RevealBranches == {"flop", "turn", "river", "second flop", "second turn", "second river"}

\* The last row read that opened a street: a reveal line or a start marker
StreetStart ==
    LET opening == {k \in 1..row : Branch(log[k].line) \in RevealBranches \cup {"starting hand"}}
    IN IF opening = {} THEN 0 ELSE CHOOSE k \in opening : \A j \in opening : j <= k

\* The rows read since, and whether the street they are on was opened by a
\* reveal line
RowsOfStreet == (StreetStart + 1)..row
OnNewStreet == StreetStart > 0 /\ Branch(log[StreetStart].line) \in RevealBranches

\* The action the row being processed appends to the list of the street state
Recorded ==
    LET list == hands'[current_hand][street_action_lists[current_hand_state]]
    IN list[Len(list)]

\* The player has put chips in on the street: a missing small blind is not
\* counted
Committed(player) ==
    \E k \in RowsOfStreet :
        /\ log[k].line.player = player
        /\ \/ Branch(log[k].line) \in {"big blind", "straddle", "bets", "raises", "calls", "bomb pot"}
           \/ Branch(log[k].line) = "small blind" /\ ~In("missing ", log[k].line)

\* A line of the street has moved the running maximum bet
Wagered ==
    \E k \in RowsOfStreet :
        Branch(log[k].line) \in {"big blind", "straddle", "small blind", "bets", "raises",
                                 "bomb pot", "uncalled bet"}

\* a reveal line sets the running maximum bet to 0 and empties the last commits
C21_Reset ==
    Parsing /\ Branch(Line) \in RevealBranches /\ game' = "constructing" =>
        current_hand_street_max_bet' = 0 /\ prev_action_dict' = <<>>

\* The row being processed is the first of its branch on a street a reveal
\* line opened
FirstOnNewStreet(branch) ==
    /\ Parsing /\ OnNewStreet /\ game' = "constructing"
    /\ Branch(Line) = branch
    /\ \A k \in RowsOfStreet : Branch(log[k].line) # branch

C21_RaiseAfterBet ==
    /\ game = "constructing" /\ row > 2
    /\ Branch(log[row].line) = "raises" /\ Branch(log[row - 1].line) = "bets"
    /\ current_hand_state = "on the Flop"
    /\ Len(hands[current_hand].flop_actions) > 1
    /\ hands[current_hand].flop_actions[Len(hands[current_hand].flop_actions)].bet_difference
         < log[row].line.number

\* The action each line of a player's move, show or collection records
RecordedAs ==
    [b \in {"raises", "bets", "calls", "checks", "folds", "uncalled bet", "shows", "collected"} |->
        CASE b = "raises" -> "raise"
          [] b = "bets" -> "bet"
          [] b = "calls" -> "call"
          [] b = "checks" -> "check"
          [] b = "folds" -> "fold"
          [] b = "uncalled bet" -> "uncalled bet"
          [] b = "shows" -> "show"
          [] b = "collected" -> "collect"]

\* The six action lists of a Hand
ActionLists == {street_action_lists[state] : state \in DOMAIN street_action_lists}

IsPrefix(a, b) == Len(a) <= Len(b) /\ SubSeq(b, 1, Len(a)) = a

\* such a line appends one Action, its own, to the list of the street state,
\* which a collection line has switched to a showdown state before, and to no
\* other list of any hand;
C22_OneAction ==
    Parsing /\ Branch(Line) \in DOMAIN RecordedAs /\ game' = "constructing" =>
        LET list == street_action_lists[current_hand_state']
            before == hands[current_hand]
            after == hands'[current_hand]
        IN /\ current_hand' = current_hand
           /\ IF Branch(Line) = "collected"
              THEN current_hand_state' \in {"at Showdown", "at second Showdown"}
              ELSE current_hand_state' = current_hand_state
           /\ Len(after[list]) = Len(before[list]) + 1
           /\ SubSeq(after[list], 1, Len(before[list])) = before[list]
           /\ after[list][Len(after[list])].action = RecordedAs[Branch(Line)]
           /\ \A other \in ActionLists \ {list} : after[other] = before[other]
           /\ \A h \in DOMAIN hands' :
                h # current_hand => h \in DOMAIN hands /\ hands'[h] = hands[h]

\* and no step on a Game takes an Action out of a list or moves it.
C22_AppendOnly ==
    games' = games =>
        \A h \in DOMAIN hands :
            /\ h \in DOMAIN hands'
            /\ \A list \in ActionLists : IsPrefix(hands[h][list], hands'[h][list])

\* C22: every raise, bet, call, check, fold, uncalled-bet, show and collect
\* line appends exactly one Action to exactly one list of the current hand,
\* the list of the street state in force when the line is processed (for a
\* collect line, after its own switch to a showdown state); no Action is ever
\* removed or reordered, so each list is in log order.
C22_OneActionPerLine == [][C22_OneAction /\ C22_AppendOnly]_vars

\* A collection line read on the flop has put its Action on the showdown list
C22_Witness ==
    /\ game = "constructing" /\ row > 1
    /\ Branch(log[row].line) = "collected"
    /\ Branch(log[row - 1].line) \notin {"collected", "starting hand"}
    /\ current_hand_state = "at Showdown"
    /\ hands[current_hand].flop_cards # <<>>
    /\ hands[current_hand].flop_actions # <<>>
    /\ Len(hands[current_hand].showdown_actions) = 1
    /\ hands[current_hand].showdown_actions[1].action = "collect"

\* The row being processed holds a raise line, and the parse goes on
RaiseProcessed == Parsing /\ Branch(Line) = "raises" /\ game' = "constructing"

C24_RaiseOverOwnCommit ==
    [][RaiseProcessed =>
         Recorded.bet_difference = Line.number - Get(prev_action_dict, Line.player)]_vars

\* The rows of the street in which the player put chips in: a big blind, a
\* regular small blind, a straddle, a bet, a bomb-pot bet, a raise or a call
CommitRows(player) ==
    {k \in RowsOfStreet :
        /\ log[k].line.player = player
        /\ \/ Branch(log[k].line) \in {"big blind", "straddle", "bets", "raises", "calls", "bomb pot"}
           \/ Branch(log[k].line) = "small blind" /\ ~In("missing ", log[k].line)}

\* What the player last committed on the street, as the lines have it
LastCommit(player) ==
    IF CommitRows(player) = {} THEN 0
    ELSE log[CHOOSE k \in CommitRows(player) : \A j \in CommitRows(player) : j <= k].line.number

\* C25: the Action of a call line has the call total of the line less the
\* caller's last commit on the street (a big blind, regular small blind,
\* straddle, bet, raise or earlier call, and not a missing small blind); the
\* call makes the call total the caller's last commit and leaves the running
\* maximum bet as it was.
C25_CallOverOwnCommit ==
    [][Parsing /\ Branch(Line) = "calls" /\ game' = "constructing" =>
         /\ Recorded.action = "call"
         /\ Recorded.bet_amount = Line.number - LastCommit(Line.player)
         /\ Get(prev_action_dict', Line.player) = Line.number
         /\ current_hand_street_max_bet' = current_hand_street_max_bet]_vars

\* The big blind has called a raise: the call is recorded less the blind
C25_Witness ==
    /\ game = "constructing" /\ row > 2
    /\ Branch(log[row].line) = "calls"
    /\ Branch(log[row - 1].line) = "raises"
    /\ Branch(log[row - 2].line) = "big blind"
    /\ log[row - 2].line.player = log[row].line.player
    /\ current_hand_state = "before Flop"
    /\ current_hand_street_max_bet = log[row - 1].line.number
    /\ Get(prev_action_dict, log[row].line.player) = log[row].line.number
    /\ LET list == hands[current_hand].pre_flop_actions
       IN /\ list # <<>>
          /\ list[Len(list)].action = "call"
          /\ list[Len(list)].bet_amount = log[row].line.number - log[row - 2].line.number
          /\ list[Len(list)].bet_amount > 0

\* A player who posted a missing small blind has called: the call is recorded
\* in full
C25_MissingWitness ==
    /\ game = "constructing" /\ row > 1
    /\ Branch(log[row].line) = "calls"
    /\ Branch(log[row - 1].line) = "small blind" /\ In("missing ", log[row - 1].line)
    /\ log[row - 1].line.player = log[row].line.player
    /\ LET list == hands[current_hand].pre_flop_actions
       IN list # <<>> /\ list[Len(list)].bet_amount = log[row].line.number

\* an uncalled-bet line appends one "uncalled bet" Action with the amount
\* returned to the list of the street state, lowers the running maximum bet by
\* that amount and leaves the last commits as they are,
C26_Refund ==
    Parsing /\ Branch(Line) = "uncalled bet" /\ game' = "constructing" =>
        /\ Recorded.action = "uncalled bet"
        /\ Recorded.bet_amount = Line.number
        /\ current_hand_street_max_bet' = current_hand_street_max_bet - Line.number
        /\ prev_action_dict' = prev_action_dict

\* The refund by itself, as every uncalled-bet row has it
RefundsRecorded == [][C26_Refund]_vars

\* and the running maximum bet is not negative.
C26_NonNegative == current_hand_street_max_bet >= 0

\* C26: an uncalled-bet-return line appends one "uncalled bet" Action with
\* the amount returned to the list of the current street and lowers the
\* running maximum bet by exactly that amount, leaving every player's last
\* commit as it was; after any sequence of lines of a hand the running maximum
\* bet is never negative.
C26_RefundKeepsMaximumNonNegative == []C26_NonNegative /\ [][C26_Refund]_vars

\* The last start marker read, and the rows of the hand read since
HandStartRow ==
    LET starts == {k \in 1..row : Branch(log[k].line) = "starting hand"}
    IN IF starts = {} THEN 0 ELSE CHOOSE k \in starts : \A j \in starts : j <= k
RowsOfHand == (HandStartRow + 1)..row

\* The row is a stack line that seats the player
Seats(k, player) ==
    /\ Branch(log[k].line) \in {"player stacks", "players stacks"}
    /\ \E i \in DOMAIN log[k].line.stacks : log[k].line.stacks[i].player = player

\* The rows among rows in which the seated player is marked as having bet: a
\* blind, a straddle, a raise, a bet, a call, a check or a refund
MarkRows(rows, player) ==
    {k \in rows :
        /\ log[k].line.player = player
        /\ Branch(log[k].line) \in {"big blind", "small blind", "straddle", "raises", "bets", "calls",
                                    "checks", "uncalled bet"}
        /\ \E s \in RowsOfHand : s < k /\ Seats(s, player)}

\* The summary a fold line leaves on the seat of the player
FoldSummary ==
    hands'[current_hand].seats[get_seat_by_player_name_with_id(hands[current_hand], Line.player)]
        .seat_summary

FoldProcessed == Parsing /\ Branch(Line) = "folds" /\ game' = "constructing"

\* C27 as the claim has it: a fold line sets the summary of the seat to
\* "folded <street state>" and appends "(didn't bet)" exactly when the player
\* had not bet on the street of the fold.
C27_FoldMarkedByStreet ==
    [][FoldProcessed =>
         FoldSummary = <<"folded", current_hand_state>>
                         \o (IF MarkRows(RowsOfStreet, Line.player) = {}
                             THEN <<"(didn't bet)">> ELSE <<>>)]_vars

\* C27: a fold line sets the summary of the seat to "folded <street state>"
\* and appends "(didn't bet)" exactly when no line of the hand before it has
\* marked the seat as having bet, on whatever street.
C27_FoldMarkedByHand ==
    [][FoldProcessed =>
         FoldSummary = <<"folded", current_hand_state>>
                         \o (IF MarkRows(RowsOfHand, Line.player) = {}
                             THEN <<"(didn't bet)">> ELSE <<>>)]_vars

\* A player who called before the flop has folded on the flop without acting
\* there, and is not marked
C27_Witness ==
    /\ game = "constructing" /\ row > 2
    /\ Branch(log[row].line) = "folds"
    /\ current_hand_state = "on the Flop"
    /\ MarkRows(RowsOfStreet, log[row].line.player) \ {row} = {}
    /\ \E k \in RowsOfHand : Branch(log[k].line) = "calls" /\ log[k].line.player = log[row].line.player
    /\ \E s \in DOMAIN hands[current_hand].seats :
         hands[current_hand].seats[s].seat_summary = <<"folded", "on the Flop">>

\* A player has folded before any line marked the seat
C27_UnmarkedWitness ==
    /\ game = "constructing" /\ row > 2
    /\ Branch(log[row].line) = "folds"
    /\ \E s \in DOMAIN hands[current_hand].seats :
         hands[current_hand].seats[s].seat_summary = <<"folded", "before Flop", "(didn't bet)">>

\* The sum of what the seats of a hand have collected on both runs
RECURSIVE SeatsCollected(_)
SeatsCollected(seats) ==
    IF seats = <<>> THEN 0
    ELSE seats[1].collected_amount + seats[1].collected_amount_second_run
           + SeatsCollected(Tail(seats))

\* The total pot of every hand is what its seats have collected
C28_PotBalance ==
    \A h \in DOMAIN hands : hands[h].total_pot = SeatsCollected(hands[h].seats)

\* A collection line has been processed without an exception
CollectProcessed ==
    /\ Parsing /\ Branch(Line) = "collected"
    /\ game' = "constructing"

\* The accumulator and the action list a collection line pays into
CollectAccumulator == IF "second run" \in Line.has
                      THEN "collected_amount_second_run" ELSE "collected_amount"
CollectList == IF "second run" \in Line.has
               THEN "run_it_twice_showdown_actions" ELSE "showdown_actions"
OtherAccumulator == IF "second run" \in Line.has
                    THEN "collected_amount" ELSE "collected_amount_second_run"

\* A collection line adds its amount to the total pot and to one accumulator
\* of one seat, and records one collect action in the list of its run
C28_Collect ==
    CollectProcessed =>
      LET old == hands[current_hand]
          new == hands'[current_hand]
      IN /\ new.total_pot = old.total_pot + Line.number
         /\ Len(new.seats) = Len(old.seats)
         /\ \E s \in DOMAIN old.seats :
              /\ old.players[old.seats[s].seat_player] = new.players[new.seats[s].seat_player]
              /\ new.players[new.seats[s].seat_player].player_name_with_id = Line.player
              /\ new.seats[s][CollectAccumulator] = old.seats[s][CollectAccumulator] + Line.number
              /\ new.seats[s][OtherAccumulator] = old.seats[s][OtherAccumulator]
              /\ \A t \in DOMAIN old.seats \ {s} :
                   /\ new.seats[t].collected_amount = old.seats[t].collected_amount
                   /\ new.seats[t].collected_amount_second_run
                        = old.seats[t].collected_amount_second_run
         /\ Len(new[CollectList]) = Len(old[CollectList]) + 1
         /\ new[CollectList][Len(new[CollectList])].action = "collect"
         /\ new[CollectList][Len(new[CollectList])].bet_amount = Line.number
         /\ \A list \in ActionLists \ {CollectList} : new[list] = old[list]

C28_BothRunsWitness ==
    /\ game = "constructing"
    /\ \E s \in DOMAIN hands[current_hand].seats :
         hands[current_hand].seats[s].collected_amount > 0
    /\ \E s \in DOMAIN hands[current_hand].seats :
         hands[current_hand].seats[s].collected_amount_second_run > 0

\* The cards of the reveal lines of the given branches among rows from..to of
\* the log, in the order of the rows
RECURSIVE RevealedCards(_, _, _)
RevealedCards(from, to, branches) ==
    IF from > to THEN <<>>
    ELSE RevealedCards(from, to - 1, branches)
           \o (IF Branch(log[to].line) \in branches
               THEN Cards(log[to].line.cards).list ELSE <<>>)

FirstRunReveals == {"flop", "turn", "river"}
SecondRunReveals == {"second flop", "second turn", "second river"}

\* The last agreement line read in the hand, 0 when there is none
AgreementRow ==
    LET agreed == {k \in RowsOfHand : Branch(log[k].line) = "run it twice"}
    IN IF agreed = {} THEN 0 ELSE CHOOSE k \in agreed : \A j \in agreed : j <= k

\* The primary board as it stood when the agreement line was read
Snapshot == RevealedCards(HandStartRow + 1, AgreementRow, FirstRunReveals)

\* The agreement line makes the secondary board a copy of the primary board
\* and leaves the primary board alone
C29_Agreement ==
    Parsing /\ Branch(Line) = "run it twice" /\ game' = "constructing" =>
      /\ hands'[current_hand].run_it_twice_board = hands[current_hand].board
      /\ hands'[current_hand].board = hands[current_hand].board

\* A reveal line extends the board of its run by its cards and leaves the
\* board of the other run alone
C29_Reveal ==
    Parsing /\ Branch(Line) \in RevealBranches /\ game' = "constructing" =>
      LET old == hands[current_hand]
          new == hands'[current_hand]
          street_cards == Cards(Line.cards).list
      IN IF Branch(Line) \in FirstRunReveals
         THEN /\ new.board = old.board \o street_cards
              /\ new.run_it_twice_board = old.run_it_twice_board
         ELSE /\ new.run_it_twice_board = old.run_it_twice_board \o street_cards
              /\ new.board = old.board

\* The primary board is the cards of the flop, turn and river lines of the
\* hand in the order revealed; after an agreement line the secondary board is
\* the snapshot followed by the cards of the second-run lines read since, and
\* the snapshot is a prefix of both boards
C29_Boards ==
    game = "constructing" =>
      LET self == hands[current_hand]
      IN /\ self.board = RevealedCards(HandStartRow + 1, row, FirstRunReveals)
         /\ AgreementRow > 0 =>
              /\ self.run_it_twice_board
                   = Snapshot \o RevealedCards(AgreementRow + 1, row, SecondRunReveals)
              /\ IsPrefix(Snapshot, self.board)
              /\ IsPrefix(Snapshot, self.run_it_twice_board)

\* The first-run reveal lines of the hand are a flop, then a turn, then a
\* river, none of them twice
RevealedInOrder ==
    LET revealed == {k \in RowsOfHand : Branch(log[k].line) \in FirstRunReveals}
    IN /\ \A j, k \in revealed : Branch(log[j].line) = Branch(log[k].line) => j = k
       /\ \A j, k \in revealed :
            j < k => <<Branch(log[j].line), Branch(log[k].line)>>
                       \in {<<"flop", "turn">>, <<"flop", "river">>, <<"turn", "river">>}

\* On such a hand the board is the flop cards, the turn card and the river
\* card the hand holds
C29_BoardOfStreets ==
    game = "constructing" /\ RevealedInOrder =>
      LET self == hands[current_hand]
          Has(branch) == \E k \in RowsOfHand : Branch(log[k].line) = branch
      IN self.board = (IF Has("flop") THEN self.flop_cards ELSE <<>>)
                        \o (IF Has("turn") THEN <<self.turn_card>> ELSE <<>>)
                        \o (IF Has("river") THEN <<self.river_card>> ELSE <<>>)

\* C29: the agreement line makes the secondary board a copy of the primary
\* board as it stands; from then on first-run reveal lines extend only the
\* primary board and second-run reveal lines only the secondary board, so the
\* snapshot stays a common prefix of both boards, and the primary board is the
\* flop cards, then the turn card, then the river card in the order revealed.
C29_SnapshotIsCommonPrefix ==
    /\ [](C29_Boards /\ C29_BoardOfStreets)
    /\ [][C29_Agreement /\ C29_Reveal]_vars

\* After an agreement on the flop, both boards have been extended past the
\* snapshot by different cards
C29_Witness ==
    /\ game = "constructing"
    /\ AgreementRow > 0
    /\ Len(Snapshot) = 3
    /\ Len(hands[current_hand].board) > 3
    /\ Len(hands[current_hand].run_it_twice_board) > 3
    /\ hands[current_hand].board # hands[current_hand].run_it_twice_board
    /\ IsPrefix(Snapshot, hands[current_hand].board)
    /\ IsPrefix(Snapshot, hands[current_hand].run_it_twice_board)

\* A bomb-pot bet line has been processed without an exception
BombPotProcessed ==
    /\ Parsing /\ Branch(Line) = "bomb pot"
    /\ game' = "constructing"

\* The dealer and the blinds as counted from the seat numbered number: the
\* button two seats before it, the small blind one seat before it and the
\* big blind on it, modulo the number of seats
CountedFrom(self, number) ==
    LET num_seats == Len(self.seats)
        button_seat == SeatNumbered(self, (number - 2) % num_seats)
        small_blind_seat == SeatNumbered(self, (number - 1) % num_seats)
        big_blind_seat == SeatNumbered(self, number)
    IN [dealer |-> IF button_seat # 0
                   THEN self.players[self.seats[button_seat].seat_player] ELSE None,
        small_blind_seat |-> small_blind_seat,
        big_blind_seats |-> IF big_blind_seat # 0 THEN <<big_blind_seat>> ELSE <<>>]

\* The line clears the blind amounts, marks the hand as a bomb pot and records
\* the bet before the flop without marking the seat as a plain bet does
C30_ClearedAndMarked ==
    BombPotProcessed =>
      LET old == hands[current_hand]
          new == hands'[current_hand]
      IN /\ new.is_bomb_pot
         /\ new.small_blind_amount = 0 /\ new.big_blind_amount = 0
         /\ new.pre_flop_actions
              = Append(old.pre_flop_actions,
                       Action(get_player_by_player_name_with_id(old, Line.player),
                              "bet", Line.number, 0, ""))
         /\ \A s \in DOMAIN old.seats : new.seats[s].seat_did_bet = old.seats[s].seat_did_bet

\* The dealer and the blinds are counted from the seat of the player named in
\* the line, when that seat has chips
C30_CountedFromNamedSeat ==
    BombPotProcessed =>
      LET old == hands[current_hand]
          new == hands'[current_hand]
          utg_seat == old.seats[get_seat_by_player_name_with_id(old, Line.player)]
          counted == CountedFrom(old, utg_seat.seat_number)
      IN utg_seat.stack_size > 0 =>
           /\ new.dealer = counted.dealer
           /\ new.small_blind_seat = counted.small_blind_seat
           /\ new.big_blind_seats = counted.big_blind_seats

BombPotHandled == [][C30_ClearedAndMarked]_vars

\* C30: on a bomb-pot bet line the previous dealer and blind assignments are
\* cleared and the button, small blind and big blind are recomputed as
\* positions counted from the seat of the player named in the line, skipping
\* seats without chips and wrapping around the table; the line is handled as
\* a bomb-pot bet, never as a plain bet.
C30_BombPotFromNamedSeat == [][C30_ClearedAndMarked /\ C30_CountedFromNamedSeat]_vars

\* Some seat of the hand has chips
HasAvailableSeat(self) == \E s \in DOMAIN self.seats : self.seats[s].stack_size > 0

\* C31: after a bomb-pot bet line in a hand where at least one seat has a
\* positive starting stack, the hand has a dealer, a small-blind seat and a
\* big-blind seat, each of them a seat of the hand.
C31_BombPotSeatsExist ==
    [][BombPotProcessed /\ HasAvailableSeat(hands[current_hand]) =>
         LET self == hands'[current_hand]
         IN /\ self.dealer # None
            /\ \E s \in DOMAIN self.seats :
                 self.players[self.seats[s].seat_player] = self.dealer
            /\ self.small_blind_seat \in DOMAIN self.seats
            /\ self.big_blind_seats # <<>>
            /\ \A i \in DOMAIN self.big_blind_seats :
                 self.big_blind_seats[i] \in DOMAIN self.seats]_vars

\* The big-blind seat alone is always found: it is the seat the count starts
\* from
C31_BigBlindSeatExists ==
    [][BombPotProcessed /\ HasAvailableSeat(hands[current_hand]) =>
         LET self == hands'[current_hand]
         IN /\ Len(self.big_blind_seats) = 1
            /\ self.big_blind_seats[1] \in DOMAIN self.seats
            /\ self.seats[self.big_blind_seats[1]].stack_size > 0]_vars

\* A missing small blind line has been processed without an exception
MissingSmallBlindProcessed ==
    /\ Parsing /\ Branch(Line) = "small blind" /\ In("missing ", Line)
    /\ game' = "constructing"

\* such a line appends the poster to the missing small blinds, marks the seat
\* as small blind and as having bet, and leaves the regular small blind and
\* the poster's last commit alone;
C32_MissingSmallBlind ==
    MissingSmallBlindProcessed =>
      LET old == hands[current_hand]
          new == hands'[current_hand]
          p_seat == get_seat_by_player_name_with_id(old, Line.player)
      IN /\ new.missing_small_blinds
              = Append(old.missing_small_blinds,
                       get_player_by_player_name_with_id(old, Line.player))
         /\ new.seats[p_seat].seat_desc = " (small blind)"
         /\ new.seats[p_seat].seat_did_bet
         /\ new.small_blind_seat = old.small_blind_seat
         /\ new.small_blind_player = old.small_blind_player
         /\ new.small_blind_amount = old.small_blind_amount
         /\ Get(prev_action_dict', Line.player) = Get(prev_action_dict, Line.player)

\* a big blind line appends one seat and one player to the big blind lists;
C32_BigBlind ==
    Parsing /\ Branch(Line) = "big blind" /\ game' = "constructing" =>
      LET old == hands[current_hand]
          new == hands'[current_hand]
      IN /\ new.big_blind_seats
              = Append(old.big_blind_seats, get_seat_by_player_name_with_id(old, Line.player))
         /\ new.big_blind_players
              = Append(old.big_blind_players,
                       get_player_by_player_name_with_id(old, Line.player))

\* The rows of the log read while the hand h of the heap was the current hand
RowsOf(h) == {i \in 1..Len(log) : 1 + StartMarkers(i) = h}
RowsOfBranch(h, branch) == {i \in RowsOf(h) : Branch(log[i].line) = branch}

\* The lines of the k-th hand of a formatted log
Block(lines, k) ==
    LET start == HandStart(lines, 1, k)
    IN start..(FirstWhere({i \in start..Len(lines) : lines[i] = ""}) - 1)

\* The lines among them in which a player of the hand posts the blind
Postings(self, lines, k, text) ==
    {i \in Block(lines, k) :
       \E p \in DOMAIN self.players : lines[i] = DisplayName(self.players[p]) \o text}

\* The k-th hand of the formatted log has one "posts big blind" line for each
\* big blind line of the hand, and one "posts small blind" line for each
\* missing small blind besides that of the regular small blind
PostingsAsPosted(lines, k) ==
    LET h == hand_list[k]
        self == hands[h]
        missing == {i \in RowsOfBranch(h, "small blind") : In("missing ", log[i].line)}
    IN /\ Cardinality(Postings(self, lines, k,
                        ": posts big blind " \o Money(currency_symbol, self.big_blind_amount)))
            = Cardinality(RowsOfBranch(h, "big blind"))
       /\ Cardinality(Postings(self, lines, k,
                        ": posts small blind " \o Money(currency_symbol, self.small_blind_amount)))
            = Cardinality(missing) + (IF self.small_blind_player # 0 THEN 1 ELSE 0)

\* so the output has one "posts big blind" line per big blind line and one
\* extra "posts small blind" line per missing small blind.
C32_Postings ==
    \A i \in DOMAIN outputs :
        ~Raised(outputs[i].result) /\ outputs[i].game = games =>
            \A k \in DOMAIN hand_list : PostingsAsPosted(outputs[i].result.lines, k)

\* the same for the hands in which no bomb-pot bet was posted
C32_PostingsOutsideBombPots ==
    \A i \in DOMAIN outputs :
        ~Raised(outputs[i].result) /\ outputs[i].game = games =>
            \A k \in DOMAIN hand_list :
                RowsOfBranch(hand_list[k], "bomb pot") = {}
                    => PostingsAsPosted(outputs[i].result.lines, k)

C32_BlindLists == [][C32_MissingSmallBlind /\ C32_BigBlind]_vars

\* C32, as the claim has it.
C32_BlindsPosted == []C32_Postings /\ [][C32_MissingSmallBlind /\ C32_BigBlind]_vars

\* C32: a missing small blind line appends the poster to the missing small
\* blinds, marks the seat as small blind and as having bet and leaves the
\* regular small blind and the poster's last commit alone; a big blind line
\* appends one seat and one player to the big blind lists; the output of a hand
\* without a bomb-pot bet has one "posts big blind" line per big blind line and
\* one extra "posts small blind" line per missing small blind.
C32_BlindsPostedOutsideBombPots ==
    []C32_PostingsOutsideBombPots /\ [][C32_MissingSmallBlind /\ C32_BigBlind]_vars

\* A formatted hand with a regular and a missing small blind has two "posts
\* small blind" lines
C32_Witness ==
    \E i \in DOMAIN outputs :
        /\ ~Raised(outputs[i].result) /\ outputs[i].game = games
        /\ \E k \in DOMAIN hand_list :
             LET self == hands[hand_list[k]]
             IN /\ RowsOfBranch(hand_list[k], "bomb pot") = {}
                /\ self.missing_small_blinds # <<>>
                /\ self.small_blind_player # 0
                /\ Cardinality(Postings(self, outputs[i].result.lines, k,
                       ": posts small blind " \o Money(currency_symbol, self.small_blind_amount)))
                     = 2

\* A formatted hand with two big blind lines has two "posts big blind" lines
C32_TwoBigBlindsWitness ==
    \E i \in DOMAIN outputs :
        /\ ~Raised(outputs[i].result) /\ outputs[i].game = games
        /\ \E k \in DOMAIN hand_list :
             LET self == hands[hand_list[k]]
             IN /\ Cardinality(RowsOfBranch(hand_list[k], "big blind")) = 2
                /\ Cardinality(Postings(self, outputs[i].result.lines, k,
                       ": posts big blind " \o Money(currency_symbol, self.big_blind_amount)))
                     = 2

\* An end marker processed for a hand with a dealer appends " (button)" to
\* the description of the dealer's seat, keeping what is there, and to that of
\* no other seat
C33_EndMarker ==
    Parsing /\ Branch(Line) = "ending hand" /\ game' = "constructing"
        /\ hands[current_hand].dealer # None =>
      LET old == hands[current_hand]
          new == hands'[current_hand]
          seat == get_seat_by_player_name_with_id(old, old.dealer.player_name_with_id)
      IN /\ seat \in DOMAIN old.seats
         /\ new.seats[seat].seat_desc = old.seats[seat].seat_desc \o " (button)"
         /\ \A s \in DOMAIN old.seats \ {seat} : new.seats[s].seat_desc = old.seats[s].seat_desc

\* The end marker does not fail
C33_MarkerProcessed ==
    Parsing /\ Branch(Line) = "ending hand" => game' = "constructing"

\* The descriptions that carry the annotation once
ButtonOnce == {" (button)", " (small blind) (button)", " (big blind) (button)"}

\* Once the log is parsed, the dealer's seat of every hand of the hand list
\* that has a dealer carries the annotation exactly once
C33_Once ==
    game = "built" =>
      \A k \in DOMAIN hand_list :
          LET self == hands[hand_list[k]]
          IN self.dealer # None =>
               self.seats[get_seat_by_player_name_with_id(self, self.dealer.player_name_with_id)]
                   .seat_desc \in ButtonOnce

C33_Annotated == [][C33_EndMarker]_vars

\* C33: an end marker processed for a hand with a recorded dealer appends
\* " (button)" to the description of the dealer's seat and to no other seat,
\* keeping any blind annotation already there; over the whole parse each hand's
\* dealer seat carries the annotation exactly once, and the marker never fails
\* because the dealer has no seat in the hand.
C33_ButtonAnnotatedOnce == []C33_Once /\ [][C33_EndMarker /\ C33_MarkerProcessed]_vars

C33_NeverFails == [][C33_MarkerProcessed]_vars
C33_ExactlyOnce == []C33_Once

\* The table line of a header that names the seat as the button
TableLine(seat_number) ==
    "Table 'PNLogConverter' 10-max Seat #" \o ToString(seat_number) \o " is the button"

\* Two seats before the seat, around a table of ten seats numbered from 1
TwoSeatsBefore(seat_number) == ((seat_number - 3) % 10) + 1

\* The hand has no dealer, a seat with chips and a big blind
DeadButton(self) ==
    self.dealer = None /\ HasAvailableSeat(self) /\ self.big_blind_seats # <<>>

\* C34: in every formatted log, the button of a hand with a recorded dealer
\* is the dealer's seat number; that of a hand with none, a seat with chips
\* and a big blind is two seats before the first big-blind seat,
\* ((seat number - 3) mod 10) + 1, a value in 1..10 whether or not a seat
\* carries it.
C34_ButtonSeat ==
    \A i \in DOMAIN outputs :
        ~Raised(outputs[i].result) /\ outputs[i].game = games =>
            \A k \in DOMAIN hand_list :
                LET self == hands[hand_list[k]]
                    table == outputs[i].result.lines[HandStart(outputs[i].result.lines, 1, k) + 1]
                    first == self.seats[self.big_blind_seats[1]].seat_number
                IN /\ self.dealer # None =>
                        table = TableLine(self.seats[get_seat_by_player_name_with_id(
                                              self, self.dealer.player_name_with_id)].seat_number)
                   /\ DeadButton(self) =>
                        /\ table = TableLine(TwoSeatsBefore(first))
                        /\ TwoSeatsBefore(first) \in 1..10

\* A formatted hand with a dead button whose first big blind sits at seat 1:
\* the button wraps to seat 9, which no seat of the hand carries
C34_Witness ==
    \E i \in DOMAIN outputs :
        /\ ~Raised(outputs[i].result) /\ outputs[i].game = games
        /\ \E k \in DOMAIN hand_list :
             LET self == hands[hand_list[k]]
             IN /\ DeadButton(self)
                /\ self.seats[self.big_blind_seats[1]].seat_number = 1
                /\ SeatNumbered(self, 9) = 0
                /\ outputs[i].result.lines[HandStart(outputs[i].result.lines, 1, k) + 1]
                     = TableLine(9)

\* A formatted hand whose button is the seat of its dealer
C34_DealerWitness ==
    \E i \in DOMAIN outputs :
        /\ ~Raised(outputs[i].result) /\ outputs[i].game = games
        /\ \E k \in DOMAIN hand_list :
             /\ hands[hand_list[k]].dealer # None
             /\ outputs[i].result.lines[HandStart(outputs[i].result.lines, 1, k) + 1]
                  = TableLine(3)

\* C35: formatting never fails for lack of a button: for every hand of the
\* hand list that has no recorded dealer, with or without a big blind, the
\* formatter has a button seat number for the header.
C35_ButtonForEveryHand ==
    \A i \in DOMAIN outputs :
        outputs[i].game = games =>
            \A k \in DOMAIN hand_list :
                LET self == hands[hand_list[k]]
                IN self.dealer = None => ~Raised(ButtonSeatId(self))

\* The hands with a big blind, or without a seat with chips, do have one
C35_ButtonWithBigBlind ==
    \A i \in DOMAIN outputs :
        outputs[i].game = games =>
            \A k \in DOMAIN hand_list :
                LET self == hands[hand_list[k]]
                IN self.dealer = None /\ (self.big_blind_seats # <<>> \/ ~HasAvailableSeat(self))
                     => ~Raised(ButtonSeatId(self))

\* The cards of the reveal lines of the given branches as the formatter
\* writes them, and what it writes for cards that were not revealed
RevealTexts(branches) ==
    {CardsStr(Cards(log[i].line.cards).list) :
       i \in {j \in DOMAIN log : /\ Branch(log[j].line) \in branches
                                 /\ ~Raised(Cards(log[j].line.cards))}}
      \cup {NoneStr}
FlopTexts == RevealTexts({"flop", "second flop"})
TurnTexts == RevealTexts({"turn", "second turn"})
RiverTexts == RevealTexts({"river", "second river"})

\* The markers of the streets of a formatted hand
FlopMarkers(first) == {first \o f \o "]" : f \in FlopTexts}
TurnMarkers(first) == {first \o f \o "] [" \o t \o "]" : f \in FlopTexts, t \in TurnTexts}
RiverMarkers(first) ==
    {first \o f \o " " \o t \o "] [" \o r \o "]" :
       f \in FlopTexts, t \in TurnTexts, r \in RiverTexts}

\* The markers of a formatted hand in the order they have to come in, each
\* as the set of the lines that are that marker
MarkerOrder ==
    <<{"*** HOLE CARDS ***"},
      FlopMarkers("*** FLOP *** [") \cup FlopMarkers("*** FIRST FLOP *** ["),
      TurnMarkers("*** TURN *** [") \cup TurnMarkers("*** FIRST TURN *** ["),
      RiverMarkers("*** RIVER *** [") \cup RiverMarkers("*** FIRST RIVER *** ["),
      FlopMarkers("*** SECOND FLOP *** ["),
      TurnMarkers("*** SECOND TURN *** ["),
      RiverMarkers("*** SECOND RIVER *** ["),
      {"*** SHOW DOWN ***", "*** FIRST SHOW DOWN ***"},
      {"*** SECOND SHOW DOWN ***"},
      {"*** SUMMARY ***"},
      {"Total pot: " \o Money(currency_symbol, pot) \o " | Rake 0" : pot \in 0..20}>>

\* The branch of the reveal line each street marker stands for
MarkerBranch ==
    <<"", "flop", "turn", "river", "second flop", "second turn", "second river", "", "", "", "">>

\* Where the lines of the block are one of the given lines
At(lines, block, texts) == {i \in block : lines[i] \in texts}

\* The lines of the k-th hand of a formatted log come in the order of the
\* format: header, table line, seat lines, postings, the hole cards marker,
\* the actions before the flop, the blocks of the streets revealed, the markers
\* of the second run, the showdown marker or markers, the summary marker, the
\* total pot, the board lines and a line for each seat.
InOrder(lines, k) ==
    \E self \in {hands[hand_list[k]]} :
    \E block \in {Block(lines, k)} :
    \E order \in {MarkerOrder} :
    \E where \in {[m \in DOMAIN order |-> At(lines, block, order[m])]} :
    \E only \in {[m \in DOMAIN order |->
                    IF where[m] = {} THEN 0 ELSE CHOOSE i \in where[m] : TRUE]} :
      LET h == hand_list[k]
          first == HandStart(lines, 1, k)
          last == first + Cardinality(block) - 1
          seats == Len(self.seats)
          hole == only[1]
          summary == only[10]
          postings == (first + 2 + seats)..(hole - 1)
          boards == (summary + 2)..(last - seats)
          Follows(next, m) == \E n \in (m + 1)..Len(order) : only[n] = next
          Actions(m, list) == only[m] # 0 => Follows(only[m] + 1 + Len(list), m)
      IN /\ \A m \in DOMAIN order : Cardinality(where[m]) <= 1
         /\ \A m \in {1, 8, 10, 11} : Cardinality(where[m]) = 1
         /\ \A m, n \in DOMAIN order :
              m < n /\ only[m] # 0 /\ only[n] # 0 => only[m] < only[n]
         /\ \A m \in 2..7 : only[m] # 0 <=> RowsOfBranch(h, MarkerBranch[m]) # {}
         /\ lines[first + 1] \in {TableLine(n) : n \in 1..10}
         /\ hole >= first + 2 + seats
         /\ Cardinality(postings)
              = Len(self.antes) + Len(self.big_blind_players) + Len(self.missing_small_blinds)
                  + (IF self.small_blind_player # 0 THEN 1 ELSE 0)
                  + (IF self.straddle_player # 0 THEN 1 ELSE 0)
         /\ Actions(2, self.flop_actions)
         /\ Actions(3, self.turn_actions)
         /\ Actions(4, self.river_actions)
         /\ Actions(8, self.showdown_actions)
         /\ Actions(9, self.run_it_twice_showdown_actions)
         /\ \E dealt \in {0, 1} : Follows(hole + 1 + dealt + Len(self.pre_flop_actions), 1)
         /\ only[11] = summary + 1
         /\ Cardinality(boards) <= 3
         /\ \A i \in boards :
              lines[i] \in {"Hand was run twice",
                            "Board [" \o CardsStr(self.board) \o "]",
                            "FIRST Board [" \o CardsStr(self.board) \o "]",
                            "SECOND Board [" \o CardsStr(self.run_it_twice_board) \o "]"}
         /\ "*** SHOW DOWN ***" \in {lines[i] : i \in block} <=> ~self.run_it_twice
         /\ "*** FIRST SHOW DOWN ***" \in {lines[i] : i \in block} <=> self.run_it_twice
         /\ only[9] # 0 <=> self.run_it_twice
         /\ self.run_it_twice <=> RowsOfBranch(h, "run it twice") # {}

\* C36: the lines of every formatted hand come in the order header, table
\* line, seat lines, postings, '*** HOLE CARDS ***', preflop actions, then the
\* flop, turn and river blocks that exist, then the second-run street markers,
\* then the showdown marker or markers, then '*** SUMMARY ***', total pot,
\* board lines and one summary line per seat; each hand has exactly one
\* SUMMARY marker and either one '*** SHOW DOWN ***' or the FIRST/SECOND SHOW
\* DOWN pair, the pair exactly when the hand was run twice.
C36_LinesInOrder ==
    \A i \in DOMAIN outputs :
        ~Raised(outputs[i].result) /\ outputs[i].game = games =>
            \A k \in DOMAIN hand_list : InOrder(outputs[i].result.lines, k)

\* A formatted hand that was run twice from the flop: the flop block with
\* its actions, the first and the second turn and both showdown markers
C36_Witness ==
    \E i \in DOMAIN outputs :
        /\ ~Raised(outputs[i].result) /\ outputs[i].game = games
        /\ \E k \in DOMAIN hand_list :
             LET self == hands[hand_list[k]]
                 written == {outputs[i].result.lines[j] : j \in Block(outputs[i].result.lines, k)}
             IN /\ self.run_it_twice
                /\ self.flop_actions # <<>>
                /\ written \cap FlopMarkers("*** FLOP *** [") # {}
                /\ written \cap TurnMarkers("*** FIRST TURN *** [") # {}
                /\ written \cap TurnMarkers("*** SECOND TURN *** [") # {}
                /\ {"*** FIRST SHOW DOWN ***", "*** SECOND SHOW DOWN ***", "*** SUMMARY ***"}
                     \subseteq written

\* ------------------------------------------------------------------------
\* The hero of a game
\* ------------------------------------------------------------------------

\* The players of a hand whose alias, composite key or name is the text x
WithAlias(self, x) ==
    {p \in DOMAIN self.players :
        /\ self.players[p].alias_name # <<>>
        /\ Text(self.players[p].alias_name[1]) = x}
WithKey(self, x) == {p \in DOMAIN self.players : self.players[p].player_name_with_id = x}
WithName(self, x) == {p \in DOMAIN self.players : Text(self.players[p].player_name) = x}

\* The players the text stands for: by alias, else by key, else by name
Matches(self, x) ==
    IF WithAlias(self, x) # {} THEN WithAlias(self, x)
    ELSE IF WithKey(self, x) # {} THEN WithKey(self, x)
    ELSE WithName(self, x)

\* main.py 330-332: the call of Game.set_hero has returned
SetHeroReturned == run_state = "parse" /\ run_state' = "save"

\* The call sets the hero of every hand of the list, changes nothing else
\* of the hand, and returns the number of entries with a match
C37_Hero ==
    SetHeroReturned =>
       /\ \A k \in DOMAIN hand_list :
            LET before == hands[hand_list[k]]
                after == hands'[hand_list[k]]
                found == Matches(before, args.heroName)
            IN /\ found = {} => after.hero_player = 0
               /\ found # {} => after.hero_player \in found
               /\ after = [before EXCEPT !.hero_player = after.hero_player]
       /\ returned' = <<Cardinality({k \in DOMAIN hand_list :
                                       Matches(hands[hand_list[k]], args.heroName) # {}})>>

\* The 'Dealt to' lines a hand can be written with
DealtTexts(self) ==
    {"Dealt to " \o called \o " [" \o CardsStr(self.hole_cards) \o "]" :
        called \in {Str(self.players[p].player_name) : p \in DOMAIN self.players}
                   \cup {Str(self.players[p].alias_name[1]) :
                            p \in {q \in DOMAIN self.players : self.players[q].alias_name # <<>>}}}

\* main.py 334-339: the game has been formatted and saved
GameSaved ==
    /\ run_state = "save"
    /\ Len(outputs') = Len(outputs) + 1
    /\ ~Raised(outputs'[Len(outputs')].result)

\* The saved lines of a hand hold a 'Dealt to' line exactly when the hand has
\* a hero and hole cards
C37_Dealt ==
    GameSaved =>
       \A k \in DOMAIN hand_list :
          LET self == hands[hand_list[k]]
              lines == outputs'[Len(outputs')].result.lines
              written == {lines[j] : j \in Block(lines, k)}
          IN (written \cap DealtTexts(self) # {})
                <=> (self.hero_player # 0 /\ self.hole_cards # <<>>)

C37_NameWitness ==
    /\ run_state = "load" /\ game = "built" /\ returned = <<1>>
    /\ outputs # <<>>
    /\ ~Raised(outputs[Len(outputs)].result)
    /\ \E k \in DOMAIN hand_list :
         LET self == hands[hand_list[k]]
         IN /\ self.hero_player # 0
            /\ WithAlias(self, args.heroName) = {} /\ WithKey(self, args.heroName) = {}
            /\ self.hero_player \in WithName(self, args.heroName)
            /\ self.hole_cards = <<>>

\* ------------------------------------------------------------------------
\* The tie-break of flushes and of high-card hands
\* ------------------------------------------------------------------------

\* The lists of five cards among the inputs
FiveCardInputs == {h \in EvalInputs : Len(h) = 5}

\* The ranks of a list of cards from the highest down
RanksDown(h) == [i \in 1..Len(h) |-> SortCards(h)[i].rank]

\* The five cards make the category and nothing better
FiveOf(h, category) == Len(h) = 5 /\ StandardCategory(CardSet(h)) = category

\* The flushes among them with the tie-break is_flush gives them, and the
\* high-card hands with the tie-break eval_final_hand returns: the ranks of
\* the five and the tie-break
FlushesEvaluated ==
    {[ranks |-> RanksDown(h), value |-> is_flush(SortCards(h)).value] :
        h \in {g \in FiveCardInputs : FiveOf(g, PokerHand.FLUSH)}}
HighCardsEvaluated ==
    {[ranks |-> RanksDown(h), value |-> eval_final_hand(h).value] :
        h \in {g \in FiveCardInputs : FiveOf(g, PokerHand.HIGH_CARD)}}

\* Two flushes with the same highest rank have the same tie-break, which is
\* the one returned for a hand reported as a flush
C38_Flushes ==
    (Returned /\ FiveOf(cards, PokerHand.FLUSH)) =>
        /\ \A other \in FlushesEvaluated :
              other.ranks[1] = RanksDown(cards)[1] => other.value = is_flush(cards).value
        /\ best_hand.category = PokerHand.FLUSH => best_hand.value = is_flush(cards).value

\* Two high-card hands with the same highest rank have the same tie-break
C38_HighCards ==
    (Returned /\ FiveOf(cards, PokerHand.HIGH_CARD)) =>
        \A other \in HighCardsEvaluated :
           other.ranks[1] = RanksDown(cards)[1] => other.value = best_hand.value

\* C38 as stated: the tie-break of a flush and of a high-card hand depends
\* only on the single highest-rank card of the five: two flushes, or two
\* high-card hands, with the same highest rank get equal tie-breaks whatever
\* their other four cards are.
C38_TopCardOnly == C38_Flushes /\ C38_HighCards

\* C38, amended: the tie-break of a flush depends only on the single
\* highest-rank card of the five, whatever the other four cards are; the
\* tie-break of a high-card hand depends on all five cards: two high-card
\* hands get equal tie-breaks exactly when their five ranks are the same, and
\* the one whose ranks come first, compared from the highest down, has the
\* higher tie-break.
C38_FlushTopCardOnly ==
    /\ C38_Flushes
    /\ (Returned /\ FiveOf(cards, PokerHand.FLUSH)) =>
          is_flush(cards).value = hand_rank_values[RanksDown(cards)[1]]
    /\ (Returned /\ FiveOf(cards, PokerHand.HIGH_CARD)) =>
          /\ best_hand.category = PokerHand.HIGH_CARD
          /\ \A other \in HighCardsEvaluated :
                LET differ == {i \in 1..5 : other.ranks[i] # RanksDown(cards)[i]}
                IN /\ differ = {} <=> other.value = best_hand.value
                   /\ differ # {} =>
                         (other.value > best_hand.value
                            <=> RankValue(other.ranks[Min(differ)])
                                  > RankValue(RanksDown(cards)[Min(differ)]))

\* A flush evaluated, with another flush among the inputs that has the same
\* highest rank and other ranks below it
C38_Witness ==
    /\ Returned /\ FiveOf(cards, PokerHand.FLUSH)
    /\ best_hand.category = PokerHand.FLUSH
    /\ \E other \in FlushesEvaluated :
          other.ranks[1] = RanksDown(cards)[1] /\ other.ranks # RanksDown(cards)

\* A high-card hand evaluated, with another among the inputs that has the
\* same highest rank and another tie-break
C38_HighCardWitness ==
    /\ Returned /\ FiveOf(cards, PokerHand.HIGH_CARD)
    /\ \E other \in HighCardsEvaluated :
          other.ranks[1] = RanksDown(cards)[1] /\ other.value # best_hand.value

\* ------------------------------------------------------------------------
\* The hands of the list and the Hand that __init__ starts with
\* ------------------------------------------------------------------------

\* A hand has what a start marker sets: a number, a variant and a timestamp
Started(self) ==
    /\ self.hand_number # 0
    /\ self.hand_type # NoneStr
    /\ self.hand_start_datetime # <<>>

\* Every hand a start marker allocated has the three
C39_AllocatedHandsStarted ==
    game \in {"constructing", "built"} => \A h \in 2..Len(hands) : Started(hands[h])

\* C39: every Hand in the Game's hand list was allocated by a start-marker
\* line and so has a hand number, a variant and a start timestamp; the
\* placeholder Hand that exists before the first start marker is never
\* appended, even when the log begins with an end marker.
C39_PlaceholderNeverAppended ==
    game \in {"constructing", "built"} =>
        \A k \in DOMAIN hand_list :
           /\ hand_list[k] # 1
           /\ Started(hands[hand_list[k]])

\* ------------------------------------------------------------------------
\* The lists of cards handed to eval_final_hand
\* ------------------------------------------------------------------------

\* A collection line with a result description is read for a seated player:
\* the hole cards of the seat, or those of the line, with the board of the
\* run number five or more
C40_Parser ==
    (/\ Parsing /\ Branch(Line) = "collected" /\ In(" with ", Line)
     /\ get_seat_by_player_name_with_id(hands[current_hand], Line.player) # 0
     /\ street_action_dict # 0
     /\ ~(In("(hand: ", Line) /\ Raised(Cards(Line.cards))))
       => LET self == hands[current_hand]
              seat == self.seats[get_seat_by_player_name_with_id(self, Line.player)]
              hole == IF In("(hand: ", Line) THEN Cards(Line.cards).list
                      ELSE seat.seat_hole_cards_obj
              board == IF In("second run", Line) THEN self.run_it_twice_board ELSE self.board
          IN Len(hole) + Len(board) >= 5

\* The first hand of the list is formatted as far as its summary: every seat
\* with known hole cards and no result summary has five cards or more with
\* the board, and with the second board where the hand was run twice
C40_Formatter ==
    (/\ game = "built" /\ Len(outputs') = Len(outputs) + 1
     /\ hand_list # <<>>
     /\ ~Raised(HeadLines(hands[hand_list[1]], 0, currency, currency_symbol, timezone)))
       => LET self == hands[hand_list[1]]
          IN \A s \in DOMAIN self.seats :
               LET seat == self.seats[s]
               IN /\ (seat.seat_summary = DefaultSummary /\ seat.seat_hole_cards # "")
                       => Len(seat.seat_hole_cards_obj) + Len(self.board) >= 5
                  /\ (/\ self.run_it_twice /\ seat.seat_run_it_twice_summary = <<>>
                      /\ seat.seat_hole_cards # "")
                       => Len(seat.seat_hole_cards_obj) + Len(self.run_it_twice_board) >= 5

\* C40: the parser and the formatter call eval_final_hand only with at least
\* five cards: whenever a collection line with a result description is
\* parsed, or a seat with known hole cards and no result summary is
\* formatted, the seat's hole cards plus the relevant board (primary or
\* second-run) number five or more, so the evaluator always has a
\* combination to return.
C40_AtLeastFiveCards == [][C40_Parser /\ C40_Formatter]_vars

\* The two halves on their own
C40_ParserAtLeastFiveCards == [][C40_Parser]_vars
C40_FormatterAtLeastFiveCards == [][C40_Formatter]_vars

\* A collection row that ends in IndexError was handed fewer than five cards
C40_FiveCardsEvaluated ==
    [][(Parsing /\ Branch(Line) = "collected" /\ game' = IndexError.exception)
          => ~C40_Parser]_vars

=============================================================================
